---- MODULE Spec2Model ----
(***************************************************************************)
(* Model of hpc_job_submitter.py: the option parser (GaussianJobCLI.parse), *)
(* the settings resolution (SubmitSettings, Preset, PresetManager,          *)
(* UnitParser), the directive editors (PBSScriptManager.update,             *)
(* GaussianInputCorrector.correct) and the per-file submission pipeline     *)
(* (GaussianJobManager.process_jobs).                                       *)
(*                                                                          *)
(* Python strings are TLA+ strings; a character is a string of length 1.    *)
(* Optional[T] is <<>> for None and <<v>> for a present value v.            *)
(***************************************************************************)
EXTENDS Integers, Sequences, FiniteSets, TLC

\* ------------------------------------------------------------------------
\* Bounds of the model
\* ------------------------------------------------------------------------

\* longest argument vector explored
MaxArgs == 3

\* the largest number of lines of a presets file
MaxPresetLines == 3

\* the largest number of lines of an input file under correction
MaxInputLines == 2

\* the largest number of lines of a submission script after its padding
MaxScriptLines == 2

\* the largest magnitude of the small memory amounts, in MB
MaxMemory == 41

\* the sizes 0..MaxSize are formatted and parsed, besides the chosen ones
MaxSize == 20

\* ------------------------------------------------------------------------
\* Python str helpers
\* ------------------------------------------------------------------------

None == <<>>

Some(v) == <<v>>

Chr(s, k) == SubSeq(s, k, k)

UPPERCASE == "ABCDEFGHIJKLMNOPQRSTUVWXYZ"

LOWERCASE == "abcdefghijklmnopqrstuvwxyz"

DIGITS == "0123456789"

\* the least element of a non-empty set of integers
Least(S) == CHOOSE k \in S : \A j \in S : k <= j

\* the greatest element of a non-empty set of integers
Greatest(S) == CHOOSE k \in S : \A j \in S : k >= j

\* 1-based position of the first occurrence of character c in s at or after
\* position k, 0 if none
FindFrom(s, c, k) ==
    LET at == {j \in k..Len(s) : Chr(s, j) = c} IN
    IF at = {} THEN 0 ELSE Least(at)

\* str.find(c) + 1
Find(s, c) == FindFrom(s, c, 1)

\* str.rfind(c) + 1
RFind(s, c) ==
    LET at == {j \in 1..Len(s) : Chr(s, j) = c} IN
    IF at = {} THEN 0 ELSE Greatest(at)

LowerChar(c) ==
    LET k == Find(UPPERCASE, c) IN IF k = 0 THEN c ELSE Chr(LOWERCASE, k)

UpperChar(c) ==
    LET k == Find(LOWERCASE, c) IN IF k = 0 THEN c ELSE Chr(UPPERCASE, k)

RECURSIVE Lower(_)
Lower(s) == IF s = "" THEN "" ELSE LowerChar(Head(s)) \o Lower(Tail(s))

RECURSIVE Upper(_)
Upper(s) == IF s = "" THEN "" ELSE UpperChar(Head(s)) \o Upper(Tail(s))

IsSpace(c) == c \in {" ", "\t", "\n", "\r"}

RECURSIVE LStrip(_)
LStrip(s) == IF s # "" /\ IsSpace(Head(s)) THEN LStrip(Tail(s)) ELSE s

RECURSIVE RStrip(_)
RStrip(s) ==
    IF s # "" /\ IsSpace(Chr(s, Len(s)))
    THEN RStrip(SubSeq(s, 1, Len(s) - 1))
    ELSE s

Strip(s) == RStrip(LStrip(s))

StartsWith(s, p) == Len(s) >= Len(p) /\ SubSeq(s, 1, Len(p)) = p

EndsWith(s, p) == Len(s) >= Len(p) /\ SubSeq(s, Len(s) - Len(p) + 1, Len(s)) = p

\* s[k:] with a 0-based Python index k >= 0
From(s, k) == SubSeq(s, k + 1, Len(s))

\* str.partition(sep) for a one-character separator: <<head, sep, tail>>
Partition(s, sep) ==
    LET k == Find(s, sep) IN
    IF k = 0 THEN <<s, "", "">>
    ELSE <<SubSeq(s, 1, k - 1), sep, SubSeq(s, k + 1, Len(s))>>

\* str.split(sep) for a one-character separator
RECURSIVE Split(_, _)
Split(s, sep) ==
    LET k == Find(s, sep) IN
    IF k = 0 THEN <<s>>
    ELSE <<SubSeq(s, 1, k - 1)>> \o Split(SubSeq(s, k + 1, Len(s)), sep)

\* the positions of character c in s
Positions(s, c) == {j \in 1..Len(s) : Chr(s, j) = c}

\* the lines of text from position start on, given the positions breaks of
\* its line breaks
RECURSIVE LinesFrom(_, _, _)
LinesFrom(text, breaks, start) ==
    IF start > Len(text) THEN <<>>
    ELSE IF \A j \in breaks : j < start THEN <<SubSeq(text, start, Len(text))>>
    ELSE <<SubSeq(text, start, Least({j \in breaks : j >= start}) - 1)>>
         \o LinesFrom(text, breaks, Least({j \in breaks : j >= start}) + 1)

\* str.splitlines() on "\n"
SplitLines(text) == LinesFrom(text, Positions(text, "\n"), 1)

\* "\n".join(lines): the lines from position k on
RECURSIVE JoinLinesFrom(_, _)
JoinLinesFrom(lines, k) ==
    IF k > Len(lines) THEN ""
    ELSE IF k = Len(lines) THEN lines[k]
    ELSE lines[k] \o "\n" \o JoinLinesFrom(lines, k + 1)

JoinLines(lines) == JoinLinesFrom(lines, 1)

\* the decimal digits of a natural number
RECURSIVE NatToStr(_)
NatToStr(n) ==
    IF n < 10 THEN Chr(DIGITS, n + 1)
    ELSE NatToStr(n \div 10) \o Chr(DIGITS, (n % 10) + 1)

\* str(n)
ToStr(n) == IF n < 0 THEN "-" \o NatToStr(0 - n) ELSE NatToStr(n)

RECURSIVE AllDigits(_)
AllDigits(s) == s = "" \/ (Find(DIGITS, Head(s)) # 0 /\ AllDigits(Tail(s)))

RECURSIVE DigitsToNat(_, _)
DigitsToNat(s, acc) ==
    IF s = "" THEN acc
    ELSE DigitsToNat(Tail(s), acc * 10 + (Find(DIGITS, Head(s)) - 1))

\* int() of a string whose surrounding whitespace is already stripped: one
\* sign is accepted, anything but digits after it raises ValueError
\* (err = TRUE)
int_of_stripped(t) ==
    LET signed == t # "" /\ Head(t) \in {"+", "-"}
        body == IF signed THEN Tail(t) ELSE t
    IN IF body = "" \/ ~AllDigits(body) THEN [err |-> TRUE, val |-> 0]
       ELSE [err |-> FALSE,
             val |-> IF signed /\ Head(t) = "-"
                     THEN 0 - DigitsToNat(body, 0)
                     ELSE DigitsToNat(body, 0)]

\* int(s)
ParseInt(s) == int_of_stripped(Strip(s))

\* ------------------------------------------------------------------------
\* UnitParser
\* ------------------------------------------------------------------------

\* the suffix table with a binary gigabyte
SUFFIXES_binary == << <<"MB", 1>>, <<"GB", 1024>> >>

\* the suffix table {"MB": 1, "GB": 1000}, in iteration order
SUFFIXES == << <<"MB", 1>>, <<"GB", 1000>> >>

\* int(number) * multiplier, given the result n of int(number)
scaled(n, multiplier) ==
    IF n.err THEN [err |-> TRUE, val |-> None]
    ELSE [err |-> FALSE, val |-> Some(n.val * multiplier)]

\* the suffix loop and the final int() of parse_to_mb on the stripped,
\* upper-cased text
parse_upper(upper, default) ==
    IF upper = "" THEN [err |-> FALSE, val |-> default]
    ELSE IF EndsWith(upper, SUFFIXES[1][1])
    THEN scaled(ParseInt(SubSeq(upper, 1, Len(upper) - Len(SUFFIXES[1][1]))),
                SUFFIXES[1][2])
    ELSE IF EndsWith(upper, SUFFIXES[2][1])
    THEN scaled(ParseInt(SubSeq(upper, 1, Len(upper) - Len(SUFFIXES[2][1]))),
                SUFFIXES[2][2])
    ELSE scaled(ParseInt(upper), 1)

\* UnitParser.parse_to_mb(value, default): value and default are Optional;
\* err = TRUE stands for the ValueError
parse_to_mb(value, default) ==
    IF value = None THEN [err |-> FALSE, val |-> default]
    ELSE parse_upper(Upper(Strip(value[1])), default)

\* format_mb that never uses the GB suffix
format_mb_in_mb_only(value) == ToStr(value) \o "MB"

\* UnitParser.format_mb(value)
format_mb(value) ==
    IF value % 1000 = 0 THEN ToStr(value \div 1000) \o "GB"
    ELSE ToStr(value) \o "MB"

\* ------------------------------------------------------------------------
\* Preset and PresetManager
\* ------------------------------------------------------------------------

RECURSIVE StripAll(_)
StripAll(parts) ==
    IF parts = <<>> THEN <<>> ELSE <<Strip(Head(parts))>> \o StripAll(Tail(parts))

NoPreset ==
    [queue |-> "", cores |-> 0, memory_mb |-> 0, walltime |-> "",
     gaussian_version |-> None, maxdisk_mb |-> None]

\* the Preset built by from_line from the six stripped fields and the
\* results of the three conversions
make_preset(parts, cores, memory, maxdisk) ==
    IF cores.err \/ memory.err \/ maxdisk.err
    THEN [err |-> TRUE, preset |-> NoPreset]
    ELSE [err |-> FALSE,
          preset |->
            [queue |-> parts[1],
             cores |-> cores.val,
             memory_mb |-> IF memory.val = None \/ memory.val = Some(0)
                           THEN 0 ELSE memory.val[1],
             walltime |-> parts[4],
             gaussian_version |-> IF parts[5] = "" THEN None ELSE Some(parts[5]),
             maxdisk_mb |-> maxdisk.val]]

\* from_line on the stripped fields of the line
from_parts(parts) ==
    IF Len(parts) # 6 THEN [err |-> TRUE, preset |-> NoPreset]
    ELSE make_preset(parts, ParseInt(parts[2]), parse_to_mb(Some(parts[3]), None),
                     parse_to_mb(Some(parts[6]), None))

\* Preset.from_line(line); err = TRUE stands for the ValueError
from_line(line) == from_parts(StripAll(Split(line, ";")))

\* Preset.to_line()
to_line(preset) ==
    LET maxdisk == IF preset.maxdisk_mb # None
                   THEN format_mb(preset.maxdisk_mb[1]) ELSE ""
    IN preset.queue \o ";" \o ToStr(preset.cores) \o ";"
       \o format_mb(preset.memory_mb) \o ";" \o preset.walltime \o ";"
       \o (IF preset.gaussian_version = None THEN "" ELSE preset.gaussian_version[1])
       \o ";" \o maxdisk

\* whether iter_presets yields for one stripped line of the presets file,
\* r being the result of from_line: not for a blank line, a comment or a
\* line from_line rejects
yields(line, r) == line # "" /\ ~StartsWith(line, "##") /\ ~r.err

\* next_index that also counts the lines from_line rejects
next_index_counting_rejected(sequence_index, line, r) ==
    IF line # "" /\ ~StartsWith(line, "##") THEN sequence_index + 1
    ELSE sequence_index

\* sequence_index after one line: incremented after a yield only
next_index(sequence_index, line, r) ==
    IF yields(line, r) THEN sequence_index + 1 ELSE sequence_index

\* what one stripped line yields: nothing, or (sequence_index, preset)
yield_of(sequence_index, line, r) ==
    IF yields(line, r) THEN << <<sequence_index, r.preset>> >> ELSE <<>>

\* PresetManager.iter_presets over the lines of the presets file, from line
\* k on with the current sequence_index: the pairs (sequence_index, preset)
\* in the order they are yielded
RECURSIVE iter_presets_from(_, _, _)
iter_presets_from(rawLines, k, sequence_index) ==
    IF k > Len(rawLines) THEN <<>>
    ELSE yield_of(sequence_index, Strip(rawLines[k]), from_line(Strip(rawLines[k])))
         \o iter_presets_from(rawLines, k + 1,
                              next_index(sequence_index, Strip(rawLines[k]),
                                         from_line(Strip(rawLines[k]))))

iter_presets(presetsText) == iter_presets_from(SplitLines(presetsText), 1, 1)

\* _, preset = presets[preset_number - 1] of get_preset, or its ValueError
nth_preset(presets, preset_number) ==
    IF preset_number < 1 \/ preset_number > Len(presets)
    THEN [err |-> TRUE, preset |-> NoPreset]
    ELSE [err |-> FALSE, preset |-> presets[preset_number][2]]

\* PresetManager.get_preset(preset_number); err = TRUE stands for the ValueError
get_preset(presetsText, preset_number) ==
    nth_preset(iter_presets(presetsText), preset_number)

\* ------------------------------------------------------------------------
\* SubmitSettings
\* ------------------------------------------------------------------------

\* SubmitSettings(): the dataclass defaults
DefaultSettings ==
    [queue |-> "pqph", cores |-> 12, memory_mb |-> 47988,
     walltime |-> "119:59:00", gaussian_version |-> None, quiet |-> TRUE,
     force_priority |-> FALSE, correction_enabled |-> TRUE,
     maxdisk_mb |-> None, preset_loaded |-> None, dry_run |-> FALSE,
     show_summary |-> FALSE, whitestripes |-> ""]

\* the whitestripes text of update_from_preset for the updated settings
charged_preset(updated) ==
    Strip("Charged preset : " \o updated.queue \o " " \o ToStr(updated.cores)
          \o " " \o format_mb(updated.memory_mb) \o " " \o updated.walltime
          \o " "
          \o (IF updated.gaussian_version = None THEN ""
              ELSE updated.gaussian_version[1])
          \o " "
          \o (IF updated.maxdisk_mb # None THEN format_mb(updated.maxdisk_mb[1])
              ELSE ""))

\* replace(updated, whitestripes=whitestripes)
with_whitestripes(updated) ==
    [updated EXCEPT !.whitestripes = charged_preset(updated)]

\* update_from_preset that takes every field of the preset as it is
update_from_preset_overwriting(self, preset_number, preset) ==
    with_whitestripes(
        [self EXCEPT
           !.queue = preset.queue,
           !.cores = preset.cores,
           !.memory_mb = preset.memory_mb,
           !.walltime = preset.walltime,
           !.gaussian_version = preset.gaussian_version,
           !.maxdisk_mb = preset.maxdisk_mb,
           !.preset_loaded = Some(preset_number)])

\* update_from_preset that keeps the version and the maxdisk of self when
\* the preset has none
update_from_preset_merging(self, preset_number, preset) ==
    with_whitestripes(
        [self EXCEPT
           !.queue = IF preset.queue # "" THEN preset.queue ELSE self.queue,
           !.cores = IF preset.cores # 0 THEN preset.cores ELSE self.cores,
           !.memory_mb = IF preset.memory_mb # 0 THEN preset.memory_mb
                         ELSE self.memory_mb,
           !.walltime = IF preset.walltime # "" THEN preset.walltime
                        ELSE self.walltime,
           !.gaussian_version = IF preset.gaussian_version # None
                                THEN preset.gaussian_version
                                ELSE self.gaussian_version,
           !.maxdisk_mb = IF preset.maxdisk_mb # None THEN preset.maxdisk_mb
                          ELSE self.maxdisk_mb,
           !.preset_loaded = Some(preset_number)])

\* SubmitSettings.update_from_preset(preset_number, preset)
update_from_preset(self, preset_number, preset) ==
    with_whitestripes(
        [self EXCEPT
           !.queue = IF preset.queue # "" THEN preset.queue ELSE self.queue,
           !.cores = IF preset.cores # 0 THEN preset.cores ELSE self.cores,
           !.memory_mb = IF preset.memory_mb # 0 THEN preset.memory_mb
                         ELSE self.memory_mb,
           !.walltime = IF preset.walltime # "" THEN preset.walltime
                        ELSE self.walltime,
           !.gaussian_version = preset.gaussian_version,
           !.maxdisk_mb = preset.maxdisk_mb,
           !.preset_loaded = Some(preset_number)])

\* ------------------------------------------------------------------------
\* list helpers
\* ------------------------------------------------------------------------

\* list.insert(index, x) for index >= 0: past the end it appends
ListInsert(lines, index, x) ==
    IF index >= Len(lines) THEN Append(lines, x)
    ELSE SubSeq(lines, 1, index) \o <<x>> \o SubSeq(lines, index + 1, Len(lines))

\* position of the first line whose stripped text starts with prefix, 0 if none
RECURSIVE FirstMatchFrom(_, _, _)
FirstMatchFrom(lines, prefix, k) ==
    IF k > Len(lines) THEN 0
    ELSE IF StartsWith(Strip(lines[k]), prefix) THEN k
    ELSE FirstMatchFrom(lines, prefix, k + 1)

\* the same with the stripped line lowered first
RECURSIVE FirstMatchLoweredFrom(_, _, _)
FirstMatchLoweredFrom(lines, lowered, k) ==
    IF k > Len(lines) THEN 0
    ELSE IF StartsWith(Lower(Strip(lines[k])), lowered) THEN k
    ELSE FirstMatchLoweredFrom(lines, lowered, k + 1)

\* ------------------------------------------------------------------------
\* GaussianInputCorrector
\* ------------------------------------------------------------------------

\* lines[idx] = replacement when idx is the position of a match (1-based),
\* lines.insert(default_index, replacement) when there is none (idx = 0)
replace_or_insert(lines, idx, replacement, default_index) ==
    IF idx # 0 THEN [lines EXCEPT ![idx] = replacement]
    ELSE ListInsert(lines, default_index, replacement)

\* update_directive that compares the line as it is spelled
update_directive_case_sensitive(lines, keyword, replacement, default_index) ==
    replace_or_insert(lines, FirstMatchFrom(lines, keyword, 1), replacement,
                      default_index)

\* update_directive that appends when there is no match
update_directive_appending(lines, keyword, replacement, default_index) ==
    replace_or_insert(lines, FirstMatchLoweredFrom(lines, Lower(keyword), 1),
                      replacement, Len(lines))

\* the nested update_directive(keyword, replacement, default_index) of correct
update_directive(lines, keyword, replacement, default_index) ==
    replace_or_insert(lines, FirstMatchLoweredFrom(lines, Lower(keyword), 1),
                      replacement, default_index)

\* lines[idx] = replacement when idx is the position of a match (1-based),
\* lines.append(replacement) when there is none (idx = 0)
replace_or_append(lines, idx, replacement) ==
    IF idx # 0 THEN [lines EXCEPT ![idx] = replacement]
    ELSE Append(lines, replacement)

\* the maxdisk loop that appends even after a match
update_maxdisk_appending(lines, replacement) == Append(lines, replacement)

\* the maxdisk for/else loop of correct
update_maxdisk(lines, replacement) ==
    replace_or_append(lines, FirstMatchLoweredFrom(lines, Lower("maxdisk"), 1),
                      replacement)

\* gm that divides before it multiplies
gm_dividing_first(settings) == (settings.memory_mb \div 20) * 15

\* gm that rounds up
gm_rounding_up(settings) == (settings.memory_mb * 15 + 19) \div 20

\* the memory written into the input file
gm(settings) == (settings.memory_mb * 15) \div 20

\* the optional maxdisk step of correct
correct_maxdisk(lines, settings) ==
    IF settings.maxdisk_mb # None
    THEN update_maxdisk(lines, "maxdisk=" \o ToStr(settings.maxdisk_mb[1]) \o "MB")
    ELSE lines

\* correct that applies its three directives in the reverse order
correct_lines_checkpoint_first(lines, stem, settings) ==
    correct_maxdisk(
        update_directive(
            update_directive(
                update_directive(lines, "%chk", "%chk=" \o stem \o ".chk", 2),
                "%nprocshared", "%nprocshared=" \o ToStr(settings.cores), 1),
            "%mem", "%mem=" \o ToStr(gm(settings)) \o "MB", 0),
        settings)

\* the lines GaussianInputCorrector.correct computes from the lines it read
correct_lines(lines, stem, settings) ==
    correct_maxdisk(
        update_directive(
            update_directive(
                update_directive(lines, "%mem",
                                 "%mem=" \o ToStr(gm(settings)) \o "MB", 0),
                "%nprocshared", "%nprocshared=" \o ToStr(settings.cores), 1),
            "%chk", "%chk=" \o stem \o ".chk", 2),
        settings)

\* the text GaussianInputCorrector.correct writes over a file that exists
\* when correction is enabled
correct_text(text, stem, settings) ==
    JoinLines(correct_lines(SplitLines(text), stem, settings)) \o "\n"

\* ------------------------------------------------------------------------
\* PBSScriptManager
\* ------------------------------------------------------------------------

\* content[idx] = replacement when idx is the position of a match,
\* otherwise insert at insert_index, or append when there is none
replace_at(content, idx, replacement, insert_index) ==
    IF idx # 0 THEN [content EXCEPT ![idx] = replacement]
    ELSE IF insert_index # None THEN ListInsert(content, insert_index[1], replacement)
    ELSE Append(content, replacement)

\* the nested replace_line(predicate, replacement, insert_index) of update;
\* every predicate is "the stripped line starts with prefix"
replace_line(content, prefix, replacement, insert_index) ==
    replace_at(content, FirstMatchFrom(content, prefix, 1), replacement, insert_index)

\* [line for line in content if not line.strip().startswith(prefix)],
\* from position k on
RECURSIVE drop_lines_from(_, _, _)
drop_lines_from(content, prefix, k) ==
    IF k > Len(content) THEN <<>>
    ELSE IF StartsWith(Strip(content[k]), prefix)
    THEN drop_lines_from(content, prefix, k + 1)
    ELSE <<content[k]>> \o drop_lines_from(content, prefix, k + 1)

\* drop_lines that drops the first matching line only
drop_lines_first_only(content, prefix) ==
    IF FirstMatchFrom(content, prefix, 1) = 0 THEN content
    ELSE SubSeq(content, 1, FirstMatchFrom(content, prefix, 1) - 1)
         \o SubSeq(content, FirstMatchFrom(content, prefix, 1) + 1, Len(content))

drop_lines(content, prefix) == drop_lines_from(content, prefix, 1)

\* the fixed insertion index of the queue directive
QueueInsertIndex == 13

\* the resource request line of the submission script
resources(settings) ==
    IF settings.maxdisk_mb # None
    THEN "#PBS -lselect=1:ncpus=" \o ToStr(settings.cores) \o ":mem="
         \o ToStr(settings.memory_mb) \o "MB:tmpspace="
         \o ToStr(settings.maxdisk_mb[1]) \o "MB"
    ELSE "#PBS -lselect=1:ncpus=" \o ToStr(settings.cores) \o ":mem="
         \o ToStr(settings.memory_mb) \o "MB"

\* the queue step of update: rewrite the queue directive, or drop every
\* queue directive for the PUBLIC queue
update_queue(content, settings) ==
    IF Upper(settings.queue) # "PUBLIC"
    THEN replace_line(content, "#PBS -q ", "#PBS -q " \o settings.queue,
                      Some(QueueInsertIndex))
    ELSE drop_lines(content, "#PBS -q ")

\* the module step of update
update_module(content, settings) ==
    IF settings.gaussian_version # None
    THEN replace_line(content, "module load gaussian/",
                      "module load gaussian/g09-" \o settings.gaussian_version[1],
                      None)
    ELSE content

\* the lines PBSScriptManager.update computes from the lines it read
update_lines(content, settings) ==
    update_module(
        update_queue(
            replace_line(
                replace_line(content, "#PBS -lselect=1:ncpus=", resources(settings),
                             None),
                "#PBS -l walltime=", "#PBS -l walltime=" \o settings.walltime, None),
            settings),
        settings)

\* the text PBSScriptManager.update writes over the script file
update_text(text, settings) ==
    JoinLines(update_lines(SplitLines(text), settings)) \o "\n"

\* ------------------------------------------------------------------------
\* pathlib.Path on plain path strings
\* ------------------------------------------------------------------------

\* Path.name: the final path component
PathName(path) == SubSeq(path, RFind(path, "/") + 1, Len(path))

\* Path.suffix
PathSuffix(path) ==
    LET name == PathName(path)
        k == RFind(name, ".")
    IN IF 1 < k /\ k < Len(name) THEN SubSeq(name, k, Len(name)) ELSE ""

\* Path.stem
PathStem(path) ==
    LET name == PathName(path)
        k == RFind(name, ".")
    IN IF 1 < k /\ k < Len(name) THEN SubSeq(name, 1, k - 1) ELSE name

\* Path.with_suffix(suffix)
with_suffix(path, suffix) ==
    SubSeq(path, 1, Len(path) - Len(PathSuffix(path))) \o suffix

\* s[:n]
Prefix(s, n) == SubSeq(s, 1, IF Len(s) < n THEN Len(s) ELSE n)

\* whether GaussianInputCorrector.correct(path, settings) reads and writes
\* the file: not when correction is disabled or the path does not exist
corrects(fsys, p, settings) == settings.correction_enabled /\ p \in DOMAIN fsys

\* correct that goes on when correction is disabled
correct_always(fsys, p, settings) ==
    IF p \in DOMAIN fsys
    THEN [fsys EXCEPT ![p] = correct_text(fsys[p], PathStem(p), settings)]
    ELSE fsys

\* GaussianInputCorrector.correct(path, settings) on the input files fsys
correct(fsys, p, settings) ==
    IF corrects(fsys, p, settings)
    THEN [fsys EXCEPT ![p] = correct_text(fsys[p], PathStem(p), settings)]
    ELSE fsys

\* ------------------------------------------------------------------------
\* GaussianJobCLI
\* ------------------------------------------------------------------------

\* one outcome of a step of the parser: status "continue" goes round the
\* loop of parse, "break" leaves it, "exit" is a sys.exit(code), "raise" is
\* a ValueError that ends the process with status 1; out is what was
\* printed or run on the way
Outcome(status, code, s, fs, j, o) ==
    [status |-> status, code |-> code, settings |-> s, files |-> fs, i |-> j,
     out |-> o]

\* the end of _apply_preset for a numeric identifier: found is the result
\* of get_preset
apply_found(found, preset_number, settings, files, i, next) ==
    IF found.err
    THEN Outcome("raise", 1, settings, files, i, <<"preset_not_found">>)
    ELSE Outcome("continue", 0,
                 update_from_preset(settings, preset_number, found.preset),
                 files, next, <<>>)

\* _apply_preset after the "show" and "set" tests: number is the result of
\* int(value)
apply_numbered(number, settings, presetsText, files, i, next) ==
    IF number.err
    THEN Outcome("exit", 1, settings, files, i,
                 <<"invalid_preset_identifier", "presets_listing">>)
    ELSE apply_found(get_preset(presetsText, number.val), number.val, settings,
                     files, i, next)

\* GaussianJobCLI._apply_preset(value, settings) called by parse at
\* position i, which goes on at position next when the preset is applied
_apply_preset(value, settings, presetsText, files, i, next) ==
    IF Lower(value) = "show"
    THEN Outcome("exit", 0, settings, files, i, <<"presets_listing">>)
    ELSE IF Lower(value) = "set"
    THEN Outcome("exit", 0, settings, files, i, <<"editor">>)
    ELSE apply_numbered(ParseInt(value), settings, presetsText, files, i, next)

\* the option family of a long option, by the text before its "="
LongKind(name) ==
    CASE name = "--help" -> "help"
      [] name = "--quiet" -> "quiet"
      [] name \in {"--prompt", "--interactive"} -> "prompt"
      [] name = "--dry-run" -> "dry_run"
      [] name = "--show-summary" -> "show_summary"
      [] name = "--no-correction" -> "no_correction"
      [] name = "--force" -> "force"
      [] name = "--logs" -> "logs"
      [] name \in {"--queue", "--cue"} -> "queue"
      [] name \in {"--cores", "--nproc"} -> "cores"
      [] name \in {"--memory", "--mem"} -> "memory"
      [] name = "--walltime" -> "walltime"
      [] name \in {"--gaussian-version", "--gauss"} -> "version"
      [] name = "--maxdisk" -> "maxdisk"
      [] name \in {"--preset", "--presets"} -> "preset"
      [] OTHER -> "unknown"

\* the option family of a short option, by the character after its "-"
ShortKind(option) ==
    CASE option = "h" -> "help"
      [] option = "s" -> "quiet"
      [] option = "i" -> "prompt"
      [] option = "r" -> "dry_run"
      [] option = "n" -> "no_correction"
      [] option = "f" -> "force"
      [] option = "l" -> "logs"
      [] option = "q" -> "queue"
      [] option = "c" -> "cores"
      [] option = "m" -> "memory"
      [] option = "w" -> "walltime"
      [] option = "g" -> "version"
      [] option = "d" -> "maxdisk"
      [] option = "p" -> "preset"
      [] OTHER -> "unknown"

\* which option family a token that starts with "-" names
OptionKind(arg) ==
    IF StartsWith(arg, "--") THEN LongKind(Partition(arg, "=")[1])
    ELSE ShortKind(Chr(arg, 2))

\* the inline value of an option token: the text after "=" of a long
\* option, the rest of a short one; None when there is none
InlineValue(arg) ==
    IF StartsWith(arg, "--")
    THEN LET parts == Partition(arg, "=") IN
         IF parts[2] # "" THEN Some(parts[3]) ELSE None
    ELSE LET remainder == From(arg, 2) IN
         IF remainder # "" THEN Some(remainder) ELSE None

\* the nested take_value(option, inline) of parse at position i (0-based):
\* fail = TRUE is the fail("Missing argument ...") exit
take_value(argv, i, inline) ==
    IF inline # None
    THEN IF inline[1] = "" THEN [fail |-> TRUE, value |-> "", i |-> i]
         ELSE [fail |-> FALSE, value |-> inline[1], i |-> i + 1]
    ELSE IF i + 1 >= Len(argv) THEN [fail |-> TRUE, value |-> "", i |-> i]
    ELSE [fail |-> FALSE, value |-> argv[i + 2], i |-> i + 2]

\* fail that prints the message and goes on with the next token
fail_without_exit(message, settings, files, i) ==
    Outcome("continue", 0, settings, files, i + 1, <<message>>)

\* fail(message): print to stderr and sys.exit(1)
fail(message, settings, files, i) ==
    Outcome("exit", 1, settings, files, i, <<message>>)

\* set_cores that copies the default settings, not the current ones
set_cores_from_defaults(n, settings, files, i, next) ==
    IF n.err THEN Outcome("raise", 1, settings, files, i, <<"value_error">>)
    ELSE Outcome("continue", 0, [DefaultSettings EXCEPT !.cores = n.val], files,
                 next, <<>>)

\* settings.with_updates(cores=int(value)), n being the result of int(value)
set_cores(n, settings, files, i, next) ==
    IF n.err THEN Outcome("raise", 1, settings, files, i, <<"value_error">>)
    ELSE Outcome("continue", 0, [settings EXCEPT !.cores = n.val], files, next, <<>>)

\* set_memory that takes the value of the option as it is
set_memory_unconditionally(value, settings, files, i, next) ==
    IF value.err THEN Outcome("raise", 1, settings, files, i, <<"value_error">>)
    ELSE Outcome("continue", 0, [settings EXCEPT !.memory_mb = value.val[1]],
                 files, next, <<>>)

\* settings.with_updates(memory_mb=value or settings.memory_mb), value being
\* the result of parse_to_mb
set_memory(value, settings, files, i, next) ==
    IF value.err THEN Outcome("raise", 1, settings, files, i, <<"value_error">>)
    ELSE Outcome("continue", 0,
                 [settings EXCEPT
                    !.memory_mb = IF value.val[1] # 0 THEN value.val[1]
                                  ELSE settings.memory_mb],
                 files, next, <<>>)

\* settings.with_updates(maxdisk_mb=maxdisk), maxdisk being the result of
\* parse_to_mb
set_maxdisk(maxdisk, settings, files, i, next) ==
    IF maxdisk.err THEN Outcome("raise", 1, settings, files, i, <<"value_error">>)
    ELSE Outcome("continue", 0, [settings EXCEPT !.maxdisk_mb = maxdisk.val],
                 files, next, <<>>)

\* the branch of parse for an option that takes a value: tv is the result
\* of take_value
valued_option(kind, tv, settings, files, i, presetsText) ==
    IF tv.fail THEN fail("missing_argument", settings, files, i)
    ELSE IF kind = "logs" THEN Outcome("exit", 0, settings, files, i, <<"log_dump">>)
    ELSE IF kind = "queue"
    THEN Outcome("continue", 0,
                 [settings EXCEPT
                    !.queue = IF tv.value # "" THEN tv.value ELSE settings.queue],
                 files, tv.i, <<>>)
    ELSE IF kind = "cores"
    THEN set_cores(ParseInt(tv.value), settings, files, i, tv.i)
    ELSE IF kind = "memory"
    THEN set_memory(parse_to_mb(Some(tv.value), Some(settings.memory_mb)),
                    settings, files, i, tv.i)
    ELSE IF kind = "walltime"
    THEN Outcome("continue", 0,
                 [settings EXCEPT
                    !.walltime = IF tv.value # "" THEN tv.value
                                 ELSE settings.walltime],
                 files, tv.i, <<>>)
    ELSE IF kind = "version"
    THEN Outcome("continue", 0,
                 [settings EXCEPT
                    !.gaussian_version = IF tv.value # "" THEN Some(tv.value)
                                         ELSE None],
                 files, tv.i, <<>>)
    ELSE IF kind = "maxdisk"
    THEN set_maxdisk(parse_to_mb(Some(tv.value), settings.maxdisk_mb),
                     settings, files, i, tv.i)
    ELSE \* kind = "preset"
         _apply_preset(tv.value, settings, presetsText, files, i, tv.i)

\* the branch of parse for a token that starts with "-" and is not "-" or
\* "--": kind is the option family the token names
option(kind, arg, argv, i, settings, files, presetsText) ==
    IF kind = "help" THEN Outcome("exit", 0, settings, files, i, <<"usage">>)
    ELSE IF kind = "quiet"
    THEN Outcome("continue", 0, [settings EXCEPT !.quiet = TRUE], files, i + 1, <<>>)
    ELSE IF kind = "prompt"
    THEN Outcome("continue", 0,
                 [settings EXCEPT !.quiet = FALSE, !.show_summary = TRUE],
                 files, i + 1, <<>>)
    ELSE IF kind = "dry_run"
    THEN Outcome("continue", 0,
                 [settings EXCEPT !.dry_run = TRUE, !.show_summary = TRUE],
                 files, i + 1, <<>>)
    ELSE IF kind = "show_summary"
    THEN Outcome("continue", 0, [settings EXCEPT !.show_summary = TRUE],
                 files, i + 1, <<>>)
    ELSE IF kind = "no_correction"
    THEN Outcome("continue", 0, [settings EXCEPT !.correction_enabled = FALSE],
                 files, i + 1, <<>>)
    ELSE IF kind = "force"
    THEN Outcome("continue", 0, [settings EXCEPT !.force_priority = TRUE],
                 files, i + 1, <<>>)
    ELSE IF kind = "unknown" THEN fail("unknown_option", settings, files, i)
    ELSE valued_option(kind, take_value(argv, i, InlineValue(arg)), settings,
                       files, i, presetsText)

\* the body of the while loop of parse for the token arg = argv[i]
parse_token(arg, argv, i, settings, files, presetsText) ==
    IF arg = "--"
    THEN Outcome("break", 0, settings, files \o SubSeq(argv, i + 2, Len(argv)),
                 i, <<>>)
    ELSE IF ~StartsWith(arg, "-") \/ arg = "-"
    THEN Outcome("continue", 0, settings, Append(files, arg), i + 1, <<>>)
    ELSE option(OptionKind(arg), arg, argv, i, settings, files, presetsText)

\* one iteration of the while loop of GaussianJobCLI.parse at position i
\* (0-based)
parse_step(argv, i, settings, files, presetsText) ==
    parse_token(argv[i + 1], argv, i, settings, files, presetsText)

\* ------------------------------------------------------------------------
\* The files and the environment of one invocation
\* ------------------------------------------------------------------------

\* DEFAULT_SCRIPT_TEMPLATE, what ensure_support_files leaves in the script
\* file of a fresh installation
DEFAULT_SCRIPT_TEMPLATE ==
    "#!/bin/sh\n"
    \o "\n"
    \o "# submit jobs to the que with this script using the following command:\n"
    \o "# rng4 is this script\n"
    \o "# jobname is a name you will see in the qstat command\n"
    \o "# name is the actual file minus .com etc it is passed into this script as ${in%.com}\n"
    \o "#\n"
    \o "# qsub rng -N jobname -v in=name\n"
    \o "\n"
    \o "# batch processing commands\n"
    \o "#PBS -l walltime=119:59:00\n"
    \o "#PBS -lselect=1:ncpus=12:mem=48000MB:tmpspace=400gb\n"
    \o "#PBS -j oe\n"
    \o "#PBS -q pqph\n"
    \o "#PBS -m ae\n"
    \o "\n"
    \o "# load modules\n"
    \o "#\n"
    \o "module load gaussian/g09-d01\n"
    \o "\n"
    \o "# check for a checkpoint file\n"
    \o "#\n"
    \o "# variable PBS_O_WORKDIR=directory from which the job was submited.\n"
    \o "   test -r $PBS_O_WORKDIR/${in%.com}.chk\n"
    \o "   if [ $? -eq 0 ]\n"
    \o "   then\n"
    \o "     echo \"located $PBS_O_WORKDIR/${in%.com}.chk\"\n"
    \o "     cp $PBS_O_WORKDIR/${in%.com}.chk $TMPDIR/.\n"
    \o "   else\n"
    \o "     echo \"no checkpoint file $PBS_O_WORKDIR/${in%.com}.chk\"\n"
    \o "   fi\n"
    \o "#\n"
    \o "# run gaussian\n"
    \o "#\n"
    \o "  g09 $PBS_O_WORKDIR/${in}\n"
    \o "  cp $TMPDIR/${in%.com}.chk /$PBS_O_WORKDIR/.\n"
    \o "  cp $TMPDIR/${in%.com}.wfx /$PBS_O_WORKDIR/.\n"
    \o "#  cp *.chk /$PBS_O_WORKDIR/pbs_${in%.com}.chk\n"
    \o "#  test -r $TMPDIR/fort.7\n"
    \o "#  if [ $? -eq 0 ]\n"
    \o "#  then\n"
    \o "#    cp $TMPDIR/fort.7 /$PBS_O_WORKDIR/${in%.com}.mos\n"
    \o "#  fi\n"
    \o "# exit\n"

\* a presets file as a user keeps it: a comment, the preset of
\* DEFAULT_PRESET_TEMPLATE, a line that does not parse, a preset without
\* version and maxdisk, and a preset whose fields are all empty or zero
PresetsFile ==
    "##     presets starts from next line\n"
    \o "pqph;12;48000MB;119:59:00;d01;400GB\n"
    \o "bad;line\n"
    \o "short;8;16GB;24:00:00;;\n"
    \o ";0;;;;\n"

\* the input files of the working directory: name :> text
InputFiles ==
    ("a.com" :> "%mem=1MB\n# hf\n\nwater\n")
    @@ ("b.com" :> "# opt\n")
    @@ ("c.txt" :> "notes\n")

\* str(paths.script_file)
ScriptPath == "/home/gd2613/bin/.rng"

\* the working directory the tool is started in
WorkDirs == {"/work/gd2613/jobs/water"}

\* datetime.utcnow().strftime("%d/%m - %H:%M") at the time of a submission
Timestamps == {"01/11 - 04:41"}

\* what subprocess.run(command, ...) can come back with: the executable is
\* missing (FileNotFoundError), or a return code with the captured streams
ProcessResults ==
    {[found |-> FALSE, returncode |-> 127, stdout |-> "", stderr |-> ""],
     [found |-> TRUE, returncode |-> 0, stdout |-> "7197851.cx1\n", stderr |-> ""],
     [found |-> TRUE, returncode |-> 0, stdout |-> "", stderr |-> ""],
     [found |-> TRUE, returncode |-> 1, stdout |-> "", stderr |-> "qsub: denied\n"]}

\* what the user can type at the confirmation prompt
Responses == {"y", " YES ", "n", "", "yeah"}

\* ------------------------------------------------------------------------
\* State
\* ------------------------------------------------------------------------

VARIABLES
    argv,           \* sys.argv[1:]
    i,              \* parse: the 0-based position in argv
    settings,       \* the current SubmitSettings value
    files,          \* parse: files; then CLIResult.files
    pc,             \* "parse", "process_jobs", "file", "confirm", "submit", "exit"
    exit_code,      \* the exit status once pc = "exit"
    fidx,           \* process_jobs: 1-based position in files of the current file
    path,           \* process_jobs: the resolved path of the current file
    command,        \* process_jobs: the command built for the current file
    fs,             \* the input files: path :> text
    script_file,    \* the text of paths.script_file
    presets_file,   \* the text of paths.presets_file
    log_file,       \* the text of paths.log_file
    full_log_file,  \* the text of paths.full_log_file
    cwd,            \* Path.cwd()
    out,            \* what was printed, in order (one tag per message)
    trace           \* the file, terminal and scheduler operations, in order

vars == <<argv, i, settings, files, pc, exit_code, fidx, path, command, fs,
          script_file, presets_file, log_file, full_log_file, cwd, out, trace>>

parseVars == <<argv, i, settings, files, presets_file>>

fileVars == <<fs, script_file, log_file, full_log_file>>

\* one operation on the outside world: ev names it, file is the position in
\* files it is for (0 for none), arg is what it carried
Event(ev, k, arg) == [ev |-> ev, file |-> k, arg |-> arg]

\* all argument vectors of at most n tokens of T
ArgvSet(T, n) == UNION {[1..k -> T] : k \in 0..n}

\* the tokens of the pipeline specification
Tokens ==
    {"a.com", "b", "c.txt", "nofile", "-i", "-r", "-n", "--bogus", "-q"}

\* the state main() starts parse in, for an argument vector over T and a
\* working directory of dirs
InitWith(T, dirs) ==
    /\ argv \in ArgvSet(T, MaxArgs)
    /\ i = 0
    /\ settings = DefaultSettings
    /\ files = <<>>
    /\ pc = "parse"
    /\ exit_code = 0
    /\ fidx = 0
    /\ path = ""
    /\ command = <<>>
    /\ fs = InputFiles
    /\ script_file = DEFAULT_SCRIPT_TEMPLATE
    /\ presets_file = PresetsFile
    /\ log_file = ""
    /\ full_log_file = ""
    /\ cwd \in dirs
    /\ out = <<>>
    /\ trace = <<>>

Init == InitWith(Tokens, WorkDirs)

\* the tokens of the parser specification: options with their value inline,
\* options that take the next token as their value, and the empty string
CLITokens ==
    {"-qpqgen", "-c4", "-c0", "-m2GB", "--mem=0", "-w1:00", "-gd01", "-d8GB",
     "-p1", "-p2", "--preset=3", "-q", "-g", "-d", ""}

\* the state main() starts parse in, for an argument vector of options
InitCLI == InitWith(CLITokens, WorkDirs)

\* the tokens of the preset selection specification: a file, preset
\* numbers inside and outside the presets of PresetsFile, an identifier
\* that is no number, and the dry run
SelectTokens == {"a.com", "-p0", "-p2", "-p4", "-px", "-r"}

\* the state main() starts parse in, for an argument vector that selects
\* presets
InitSelect == InitWith(SelectTokens, WorkDirs)

\* the text of a file with the lines ls[k], ls[k + 1], ...
RECURSIVE TextFrom(_, _)
TextFrom(ls, k) ==
    IF k > Len(ls) THEN "" ELSE ls[k] \o "\n" \o TextFrom(ls, k + 1)

\* the lines an input file under correction is made of: the directives in
\* several spellings, a maxdisk line and a route line
InputLines ==
    {"%mem=1MB", " %Mem=2GB", "%NProcShared=1", "%chk=old.chk", "maxdisk=1MB",
     "# hf"}

\* the input files of at most MaxInputLines lines
InputTexts ==
    {TextFrom(ls, 1) : ls \in UNION {[1..n -> InputLines] : n \in 0..MaxInputLines}}

\* the lines a submission script is made of after its padding: the
\* directives of update, a second queue directive and one in lower case
ScriptLines ==
    {"#PBS -lselect=1:ncpus=1:mem=1MB", "#PBS -l walltime=1:00", "#PBS -q old",
     "  #PBS -q second", "#pbs -q low", "module load gaussian/g09-a"}

\* n lines of padding
Padding(n) == [k \in 1..n |-> "echo"]

\* the numbers of padding lines: none, and enough to pass the insertion
\* index of the queue directive
PaddingLengths == {0, QueueInsertIndex - 1, QueueInsertIndex + 1}

\* the submission scripts: padding, then at most MaxScriptLines lines
ScriptTexts ==
    {TextFrom(Padding(n) \o ls, 1) :
        n \in PaddingLengths,
        ls \in UNION {[1..m -> ScriptLines] : m \in 0..MaxScriptLines}}

\* a submission script of two lines
ShortScript == "#!/bin/sh\ndate\n"

\* the settings of the runs of the editors: the defaults, with a version
\* and a maxdisk, for the public queue, for a queue name that is one space
\* (-q " "), and without correction
EditSettings ==
    {DefaultSettings,
     [DefaultSettings EXCEPT !.gaussian_version = Some("d01"),
                             !.maxdisk_mb = Some(800), !.cores = 4],
     [DefaultSettings EXCEPT !.queue = "Public"],
     [DefaultSettings EXCEPT !.queue = " "],
     [DefaultSettings EXCEPT !.correction_enabled = FALSE]}

\* the memory amounts of the runs of the editors: the small ones of both
\* signs, the default and the one of the default preset
MemoryValues == ((0 - MaxMemory)..MaxMemory \ {0}) \cup {47988, 48000}

\* the state before the first of two runs of the editors: over the input
\* files, over the submission scripts, over the memory amounts, or on a
\* path that does not exist
InitEdit ==
    /\ argv = <<>>
    /\ i = 0
    /\ files = <<"a.com">>
    /\ pc = "update"
    /\ exit_code = 0
    /\ fidx = 1
    /\ command = <<>>
    /\ presets_file = PresetsFile
    /\ log_file = ""
    /\ full_log_file = ""
    /\ cwd \in WorkDirs
    /\ out = <<>>
    /\ trace = <<>>
    /\ \/ /\ fs \in {[InputFiles EXCEPT !["a.com"] = text] : text \in InputTexts}
          /\ script_file = ShortScript
          /\ settings \in EditSettings
          /\ path = "a.com"
       \/ /\ fs = InputFiles
          /\ script_file \in ScriptTexts
          /\ settings \in EditSettings
          /\ path = "a.com"
       \/ /\ fs = InputFiles
          /\ script_file = DEFAULT_SCRIPT_TEMPLATE
          /\ settings \in {[DefaultSettings EXCEPT !.memory_mb = m] : m \in MemoryValues}
          /\ path = "a.com"
       \/ /\ fs = InputFiles
          /\ script_file = DEFAULT_SCRIPT_TEMPLATE
          /\ settings \in EditSettings
          /\ path = "missing.com"

\* the lines a presets file is made of: blank, comment, wrong field count,
\* malformed cores, and two lines from_line accepts
PresetLines ==
    {"", "## presets", "bad;line", "pqph;x;1GB;1:00;;",
     "pqph;12;48000MB;119:59:00;d01;400GB", " short;8;16GB;24:00:00;; "}

\* the presets files of at most MaxPresetLines lines
PresetTexts ==
    {TextFrom(ls, 1) : ls \in UNION {[1..n -> PresetLines] : n \in 0..MaxPresetLines}}

\* the argument vectors that list the presets or select one by number
PresetArgvs ==
    {<<"-p", "show">>} \cup {<<"-p" \o ToStr(n)>> : n \in 1..MaxPresetLines}

\* the state main() starts parse in, for a presets file of PresetTexts and
\* an argument vector of PresetArgvs
InitPresets ==
    /\ argv \in PresetArgvs
    /\ i = 0
    /\ settings = DefaultSettings
    /\ files = <<>>
    /\ pc = "parse"
    /\ exit_code = 0
    /\ fidx = 0
    /\ path = ""
    /\ command = <<>>
    /\ fs = InputFiles
    /\ script_file = DEFAULT_SCRIPT_TEMPLATE
    /\ presets_file \in PresetTexts
    /\ log_file = ""
    /\ full_log_file = ""
    /\ cwd \in WorkDirs
    /\ out = <<>>
    /\ trace = <<>>

\* ------------------------------------------------------------------------
\* PBSScheduler, JobLogger and the helpers of GaussianJobManager
\* ------------------------------------------------------------------------

\* submit that never looks at the return code
submit_ignoring_returncode(proc) ==
    IF ~proc.found
    THEN [succeeded |-> FALSE,
          output |-> "qsub command not found. Please ensure the PBS client tools are installed."]
    ELSE [succeeded |-> TRUE,
          output |-> Strip(IF proc.stdout # "" THEN proc.stdout
                           ELSE IF proc.stderr # "" THEN proc.stderr
                           ELSE "")]

\* PBSScheduler.submit(command), given what subprocess.run came back with
submit(proc) ==
    IF ~proc.found
    THEN [succeeded |-> FALSE,
          output |-> "qsub command not found. Please ensure the PBS client tools are installed."]
    ELSE [succeeded |-> proc.returncode = 0,
          output |-> Strip(IF proc.stdout # "" THEN proc.stdout
                           ELSE IF proc.stderr # "" THEN proc.stderr
                           ELSE "")]

\* the job-root prefix stripped from the working directory in a log line
JobRootPrefix == "/work/gd2613/jobs/"

\* JobLogger.log_line(qsub_output, job_name) at the given time and place
log_line(qsub_output, job_name, timestamp, workdir) ==
    LET work_dir == IF StartsWith(workdir, JobRootPrefix)
                    THEN From(workdir, Len(JobRootPrefix)) ELSE workdir
    IN timestamp \o " | " \o qsub_output \o " | " \o job_name \o " | " \o work_dir

\* append that writes the message with no line break after it
append_without_newline(logText, message) == logText \o message

\* JobLogger.append(message) on the text of one log
append(logText, message) == logText \o message \o "\n"

\* GaussianJobManager._resolve_input_file(raw) over the files that exist
_resolve_input_file(raw, existing) ==
    LET candidate == raw
        alternative == with_suffix(candidate, ".com")
    IN IF candidate \in existing THEN candidate
       ELSE IF PathSuffix(candidate) # ".com" /\ alternative \in existing
       THEN alternative
       ELSE candidate

\* _validate_input_file without the test of the suffix
_validate_input_file_by_existence(p, existing) ==
    IF p \notin existing THEN "does_not_exist" ELSE "ok"

\* GaussianJobManager._validate_input_file(path): "ok", or the message of
\* the sys.exit(1)
_validate_input_file(p, existing) ==
    IF p \notin existing THEN "does_not_exist"
    ELSE IF Lower(PathSuffix(p)) # ".com" THEN "not_a_com_file"
    ELSE "ok"

\* the length job names are cut to
JobNameLength == 15

\* _build_command that names the job by the whole stem
_build_command_naming_by_stem(s, job_name, input_stem) ==
    <<"qsub">> \o (IF s.force_priority THEN <<"-p", "100">> ELSE <<>>)
    \o <<"-N", input_stem, "-v", "in=" \o input_stem, ScriptPath>>

\* GaussianJobManager._build_command(settings, job_name, input_stem)
_build_command(s, job_name, input_stem) ==
    <<"qsub">> \o (IF s.force_priority THEN <<"-p", "100">> ELSE <<>>)
    \o <<"-N", job_name, "-v", "in=" \o input_stem, ScriptPath>>

\* the test of the answer taking any answer that starts with "y"
IsAffirmative_by_first_letter(response) == StartsWith(Lower(Strip(response)), "y")

\* the test of the answer in _confirm_submission
IsAffirmative(response) == Lower(Strip(response)) \in {"y", "yes"}

\* GaussianJobManager._confirm_submission(path, settings, command), given
\* what the user types if asked
_confirm_submission(s, response) ==
    IF s.quiet THEN TRUE ELSE IsAffirmative(response)

\* decide without the dry-run test
decide_without_dry_run(confirmed, s) ==
    IF ~confirmed THEN "work_aborted" ELSE "submit"

\* the two tests of process_jobs after _confirm_submission: what happens to
\* the file
decide(confirmed, s) ==
    IF ~confirmed THEN "work_aborted"
    ELSE IF s.dry_run THEN "dry_run"
    ELSE "submit"

\* after_decide leaving the loop when the file is not submitted
after_decide_leaving_loop(decision, k) ==
    IF decision = "submit" THEN [pc |-> "submit", fidx |-> k]
    ELSE [pc |-> "exit", fidx |-> k]

\* where process_jobs goes after the two tests: on to the scheduler call for
\* this file, or (continue) to the next file
after_decide(decision, k) ==
    IF decision = "submit" THEN [pc |-> "submit", fidx |-> k]
    ELSE [pc |-> "file", fidx |-> k + 1]

\* after_submit leaving the loop when the submission failed
after_submit_leaving_loop(result, k) ==
    IF ~result.succeeded THEN [pc |-> "exit", fidx |-> k]
    ELSE [pc |-> "file", fidx |-> k + 1]

\* after_submit calling prepare_environment before the next file
after_submit_preparing_again(result, k) == [pc |-> "process_jobs", fidx |-> k + 1]

\* where process_jobs goes after the scheduler call: to the next file, by
\* the continue of a failed submission or by the end of the loop body
after_submit(result, k) ==
    IF ~result.succeeded THEN [pc |-> "file", fidx |-> k + 1]
    ELSE [pc |-> "file", fidx |-> k + 1]

\* how a scheduler call shows to an observer: the executable was missing, or
\* the return code of the process
CallOutcome(proc) == IF proc.found THEN ToStr(proc.returncode) ELSE "missing"

\* ------------------------------------------------------------------------
\* Actions
\* ------------------------------------------------------------------------

\* one iteration of the while loop of GaussianJobCLI.parse
ParseStep ==
    /\ pc = "parse"
    /\ i < Len(argv)
    /\ \E r \in {parse_step(argv, i, settings, files, presets_file)} :
       /\ settings' = r.settings
       /\ files' = r.files
       /\ i' = r.i
       /\ out' = out \o r.out
       /\ pc' = CASE r.status = "continue" -> "parse"
                  [] r.status = "break" -> "process_jobs"
                  [] OTHER -> "exit"
       /\ exit_code' = r.code
    /\ UNCHANGED <<argv, fidx, path, command, fs, script_file, presets_file,
                   log_file, full_log_file, cwd, trace>>

\* the while loop of parse ends and parse returns the CLIResult
ParseReturn ==
    /\ pc = "parse"
    /\ i >= Len(argv)
    /\ pc' = "process_jobs"
    /\ UNCHANGED <<argv, i, settings, files, exit_code, fidx, path, command, fs,
                   script_file, presets_file, log_file, full_log_file, cwd, out,
                   trace>>

\* process_jobs up to its loop: usage and exit without files, otherwise
\* prepare_environment rewrites the submission script
ProcessJobs ==
    /\ pc = "process_jobs"
    /\ IF files = <<>>
       THEN /\ out' = Append(out, "usage")
            /\ pc' = "exit"
            /\ exit_code' = 0
            /\ UNCHANGED <<script_file, trace, fidx>>
       ELSE /\ script_file' = update_text(script_file, settings)
            /\ trace' = Append(trace, Event("script_write", 0, ""))
            /\ pc' = "file"
            /\ fidx' = 1
            /\ UNCHANGED <<out, exit_code>>
    /\ UNCHANGED <<argv, i, settings, files, path, command, fs, presets_file,
                   log_file, full_log_file, cwd>>

\* the head of one loop iteration of process_jobs: resolve, validate,
\* correct, build the command, print the quiet summary
ProcessNextFile ==
    /\ pc = "file"
    /\ fidx <= Len(files)
    /\ \E p \in {_resolve_input_file(files[fidx], DOMAIN fs)} :
       \E valid \in {_validate_input_file(p, DOMAIN fs)} :
       IF valid # "ok"
       THEN /\ trace' = trace \o <<Event("resolve", fidx, p),
                                   Event("validate", fidx, valid)>>
            /\ out' = Append(out, valid)
            /\ pc' = "exit"
            /\ exit_code' = 1
            /\ UNCHANGED <<path, command, fs>>
       ELSE /\ path' = p
            /\ fs' = correct(fs, p, settings)
            /\ trace' = trace \o <<Event("resolve", fidx, p),
                                   Event("validate", fidx, valid),
                                   Event("correct", fidx, p)>>
            /\ command' = _build_command(settings, Prefix(PathStem(p), JobNameLength),
                                         PathStem(p))
            /\ out' = IF settings.quiet /\ (settings.show_summary \/ settings.dry_run)
                      THEN Append(out, "quiet_summary") ELSE out
            /\ pc' = "confirm"
            /\ UNCHANGED exit_code
    /\ UNCHANGED <<argv, i, settings, files, fidx, script_file, presets_file,
                   log_file, full_log_file, cwd>>

\* _confirm_submission and the two tests after it: abort, dry run, or go on
\* to the scheduler
ConfirmSubmission ==
    /\ pc = "confirm"
    /\ \E response \in Responses :
       \E confirmed \in {_confirm_submission(settings, response)} :
       \E decision \in {decide(confirmed, settings)} :
         /\ trace' = IF settings.quiet THEN trace
                     ELSE Append(trace, Event("prompt", fidx, response))
         /\ out' = out \o (IF settings.quiet THEN <<>> ELSE <<"job_overview">>)
                       \o (IF decision = "submit" THEN <<>> ELSE <<decision>>)
         /\ pc' = after_decide(decision, fidx).pc
         /\ fidx' = after_decide(decision, fidx).fidx
    /\ UNCHANGED <<argv, i, settings, files, exit_code, path, command, fs,
                   script_file, presets_file, log_file, full_log_file, cwd>>

\* the scheduler call and what follows it: report, and on success append
\* the log line to both logs
Submit ==
    /\ pc = "submit"
    /\ \E proc \in ProcessResults, timestamp \in Timestamps :
       \E result \in {submit(proc)} :
       \E line \in {log_line(result.output, PathStem(path), timestamp, cwd)} :
         /\ IF ~result.succeeded
            THEN /\ out' = out \o (IF result.output # "" THEN <<"scheduler_output">>
                                   ELSE <<>>)
                               \o <<"submission_failed">>
                 /\ trace' = Append(trace, Event("submit", fidx, CallOutcome(proc)))
                 /\ UNCHANGED <<log_file, full_log_file>>
            ELSE /\ log_file' = append(log_file, line)
                 /\ full_log_file' = append(full_log_file, line)
                 /\ out' = out \o (IF result.output # "" THEN <<"scheduler_output">>
                                   ELSE <<>>)
                               \o <<"work_sent">>
                 /\ trace' = trace \o <<Event("submit", fidx, CallOutcome(proc)),
                                        Event("log", fidx, line)>>
         /\ pc' = after_submit(result, fidx).pc
         /\ fidx' = after_submit(result, fidx).fidx
    /\ UNCHANGED <<argv, i, settings, files, exit_code, path, command, fs,
                   script_file, presets_file, cwd>>

\* the loop of process_jobs is over: main returns, exit status 0
ProcessJobsReturn ==
    /\ pc = "file"
    /\ fidx > Len(files)
    /\ pc' = "exit"
    /\ exit_code' = 0
    /\ UNCHANGED <<argv, i, settings, files, fidx, path, command, fs, script_file,
                   presets_file, log_file, full_log_file, cwd, out, trace>>

Next ==
    \/ ParseStep
    \/ ParseReturn
    \/ ProcessJobs
    \/ ProcessNextFile
    \/ ConfirmSubmission
    \/ Submit
    \/ ProcessJobsReturn

Spec == Init /\ [][Next]_vars

\* GaussianJobCLI.parse alone, on argument vectors of options
NextCLI ==
    \/ ParseStep
    \/ ParseReturn

SpecCLI == InitCLI /\ [][NextCLI]_vars

\* the runs of the editors that have rewritten the script so far
RunsDone == Cardinality({k \in DOMAIN trace : trace[k].ev = "script_write"})

\* prepare_environment of the first run, and of a second run on what the
\* first left: PBSScriptManager.update reads the submission script and
\* writes it back
PrepareEnvironment ==
    /\ pc \in {"update", "update_again"}
    /\ \E text \in {update_text(script_file, settings)} :
         /\ script_file' = text
         /\ trace' = trace \o <<Event("script_read", RunsDone + 1, script_file),
                                Event("script_write", RunsDone + 1, text)>>
    /\ pc' = IF pc = "update" THEN "correct" ELSE "correct_again"
    /\ UNCHANGED <<argv, i, settings, files, exit_code, fidx, path, command, fs,
                   presets_file, log_file, full_log_file, cwd, out>>

\* GaussianInputCorrector.correct of a run on the file at path: it reads
\* and writes the file unless correction is disabled or the file is missing
CorrectInput ==
    /\ pc \in {"correct", "correct_again"}
    /\ \E after \in {correct(fs, path, settings)} :
         /\ fs' = after
         /\ trace' = IF corrects(fs, path, settings)
                     THEN trace \o <<Event("input_read", RunsDone, fs[path]),
                                     Event("input_write", RunsDone, after[path])>>
                     ELSE trace
    /\ pc' = IF pc = "correct" THEN "update_again" ELSE "done"
    /\ UNCHANGED <<argv, i, settings, files, exit_code, fidx, path, command,
                   script_file, presets_file, log_file, full_log_file, cwd, out>>

NextEdit ==
    \/ PrepareEnvironment
    \/ CorrectInput

\* two consecutive runs of the two editors on one script and one file
SpecEdit == InitEdit /\ [][NextEdit]_vars

\* the tokens of the flag specification: every long option that changes
\* the settings, with its value inline, and one short option
FlagTokens ==
    {"--quiet", "--interactive", "--dry-run", "--show-summary", "--no-correction",
     "--force", "--queue=pqgen", "--cores=4", "--mem=2GB", "--walltime=1:00",
     "--gauss=d01", "--maxdisk=8GB", "--preset=2", "-i"}

\* the state main() starts parse in, for an argument vector of flags
InitFlags ==
    /\ argv \in ArgvSet(FlagTokens, MaxArgs - 1)
    /\ i = 0
    /\ settings = DefaultSettings
    /\ files = <<>>
    /\ pc = "parse"
    /\ exit_code = 0
    /\ fidx = 0
    /\ path = ""
    /\ command = <<>>
    /\ fs = InputFiles
    /\ script_file = DEFAULT_SCRIPT_TEMPLATE
    /\ presets_file = PresetsFile
    /\ log_file = ""
    /\ full_log_file = ""
    /\ cwd \in WorkDirs
    /\ out = <<>>
    /\ trace = <<>>

\* GaussianJobCLI.parse on argument vectors of flags
SpecFlags == InitFlags /\ [][NextCLI]_vars

\* a working directory for the resolution of file arguments: stems of 15,
\* 16 and 21 characters, and names with a second extension
ResolveFiles ==
    ("a.com" :> "# hf\n")
    @@ ("fifteen_chars_x.com" :> "# hf\n")
    @@ ("sixteen_chars_xy.com" :> "# hf\n")
    @@ ("water_dimer_b3lyp_opt.com" :> "# opt\n")
    @@ ("c.txt" :> "notes\n")
    @@ ("e.dat.com" :> "# hf\n")
    @@ ("g.com" :> "# hf\n")

\* the file arguments of the resolution specification: files that exist,
\* names that lack the extension, that have another one, and that name
\* nothing
ResolveArguments ==
    {"a", "fifteen_chars_x.com", "sixteen_chars_xy", "water_dimer_b3lyp_opt",
     "c.txt", "e.dat", "g.dat", "nofile"}

\* the options of the resolution specification, which change the settings
ResolveOptions == {"-f", "-c4"}

\* the argument vectors of the resolution specification: options, then at
\* most two file arguments
ResolveArgvs ==
    {options \o arguments :
        options \in ArgvSet(ResolveOptions, MaxArgs - 1),
        arguments \in ArgvSet(ResolveArguments, 2)}

\* the state main() starts parse in, in the working directory ResolveFiles
InitResolve ==
    /\ argv \in ResolveArgvs
    /\ i = 0
    /\ settings = DefaultSettings
    /\ files = <<>>
    /\ pc = "parse"
    /\ exit_code = 0
    /\ fidx = 0
    /\ path = ""
    /\ command = <<>>
    /\ fs = ResolveFiles
    /\ script_file = DEFAULT_SCRIPT_TEMPLATE
    /\ presets_file = PresetsFile
    /\ log_file = ""
    /\ full_log_file = ""
    /\ cwd \in WorkDirs
    /\ out = <<>>
    /\ trace = <<>>

\* main() on file arguments to resolve
SpecResolve == InitResolve /\ [][Next]_vars

\* the sizes in megabytes: the small ones, the ones around a multiple of
\* 1000, the default memory and the memory of the default preset
SizeValues == (0..MaxSize) \cup {999, 1000, 1001, 2000, 47988, 48000}

\* the size texts: a plain count, a count with each suffix, and texts that
\* are not written the way format_mb writes
SizeTexts ==
    {ToStr(n) : n \in SizeValues}
    \cup {ToStr(n) \o "MB" : n \in SizeValues}
    \cup {ToStr(n) \o "GB" : n \in SizeValues}
    \cup {"", " 5 ", "2gb", "02GB", "+3", "-5", "-1GB", "x", "1.5GB", "GB"}

\* the Preset with the fields of the settings s
preset_of(s) ==
    [queue |-> s.queue, cores |-> s.cores, memory_mb |-> s.memory_mb,
     walltime |-> s.walltime, gaussian_version |-> s.gaussian_version,
     maxdisk_mb |-> s.maxdisk_mb]

\* the settings s with every field of the Preset p
with_preset(s, p) ==
    [s EXCEPT !.queue = p.queue, !.cores = p.cores, !.memory_mb = p.memory_mb,
              !.walltime = p.walltime, !.gaussian_version = p.gaussian_version,
              !.maxdisk_mb = p.maxdisk_mb]

\* the presets whose sizes are formatted and parsed: the default settings
\* with a memory of SizeValues and no maxdisk or one of SizeValues
UnitSettings ==
    {[DefaultSettings EXCEPT !.memory_mb = m, !.maxdisk_mb = d] :
        m \in SizeValues,
        d \in {None} \cup {Some(n) : n \in {0, 1, 1000, 400000}}}

\* the state before UnitParser is used: on a size text to parse and format
\* back, or on a preset to write as a line and read back
InitUnits ==
    /\ i = 0
    /\ files = <<>>
    /\ exit_code = 0
    /\ fidx = 0
    /\ path = ""
    /\ command = <<>>
    /\ fs = InputFiles
    /\ script_file = DEFAULT_SCRIPT_TEMPLATE
    /\ presets_file = ""
    /\ log_file = ""
    /\ full_log_file = ""
    /\ cwd \in WorkDirs
    /\ out = <<>>
    /\ trace = <<>>
    /\ \/ /\ argv \in {<<text>> : text \in SizeTexts}
          /\ settings = DefaultSettings
          /\ pc = "parse_to_mb"
       \/ /\ argv = <<>>
          /\ settings \in UnitSettings
          /\ pc = "to_line"

\* UnitParser.parse_to_mb(argv[0], None), the result kept as the maxdisk of
\* the settings; a ValueError ends the run, and so does a result of None
ParseToMb ==
    /\ pc = "parse_to_mb"
    /\ \E r \in {parse_to_mb(Some(argv[1]), None)} :
         IF r.err
         THEN /\ pc' = "exit"
              /\ exit_code' = 1
              /\ out' = Append(out, "value_error")
              /\ UNCHANGED settings
         ELSE /\ settings' = [settings EXCEPT !.maxdisk_mb = r.val]
              /\ pc' = IF r.val = None THEN "exit" ELSE "format_mb"
              /\ UNCHANGED <<exit_code, out>>
    /\ UNCHANGED <<argv, i, files, fidx, path, command, fs, script_file,
                   presets_file, log_file, full_log_file, cwd, trace>>

\* UnitParser.format_mb of the maxdisk of the settings, printed
FormatMb ==
    /\ pc = "format_mb"
    /\ out' = Append(out, format_mb(settings.maxdisk_mb[1]))
    /\ pc' = "done"
    /\ UNCHANGED <<argv, i, settings, files, exit_code, fidx, path, command, fs,
                   script_file, presets_file, log_file, full_log_file, cwd, trace>>

\* Preset.to_line of the preset of the settings, written as the one line of
\* the presets file
ToLine ==
    /\ pc = "to_line"
    /\ presets_file' = to_line(preset_of(settings)) \o "\n"
    /\ pc' = "from_line"
    /\ UNCHANGED <<argv, i, settings, files, exit_code, fidx, path, command, fs,
                   script_file, log_file, full_log_file, cwd, out, trace>>

\* Preset.from_line of the line of the presets file, the result kept in the
\* settings; a ValueError ends the run
FromLine ==
    /\ pc = "from_line"
    /\ \E r \in {from_line(SplitLines(presets_file)[1])} :
         IF r.err
         THEN /\ pc' = "exit"
              /\ exit_code' = 1
              /\ out' = Append(out, "value_error")
              /\ UNCHANGED settings
         ELSE /\ settings' = with_preset(settings, r.preset)
              /\ pc' = "done"
              /\ UNCHANGED <<exit_code, out>>
    /\ UNCHANGED <<argv, i, files, fidx, path, command, fs, script_file,
                   presets_file, log_file, full_log_file, cwd, trace>>

NextUnits ==
    \/ ParseToMb
    \/ FormatMb
    \/ ToLine
    \/ FromLine

\* UnitParser on size texts, and on the sizes of presets written and read
SpecUnits == InitUnits /\ [][NextUnits]_vars

\* main() on argument vectors that select presets
SpecSelect == InitSelect /\ [][Next]_vars

\* GaussianJobCLI.parse on the preset option, over presets files
SpecPresets == InitPresets /\ [][NextCLI]_vars

\* ------------------------------------------------------------------------
\* Properties of the submission pipeline
\* ------------------------------------------------------------------------

\* the positions in trace of the operations named ev
EventsOf(ev) == {k \in DOMAIN trace : trace[k].ev = ev}

\* the number of newline-terminated entries of a log
Entries(logText) == Cardinality(Positions(logText, "\n"))

\* the answers of Responses that are an affirmative token once trimmed and
\* lowered
AffirmativeResponses == {"y", " YES "}

\* the scheduler calls that reported success
SuccessfulCalls == {k \in EventsOf("submit") : trace[k].arg = "0"}

\* C1: in a run of process_jobs with dry_run set, the scheduler is never
\* called and nothing is appended to either log, whether the run is quiet
\* or interactive and whatever the user answers
C1_DryRunNeverSubmits ==
    (pc # "parse" /\ settings.dry_run) =>
        /\ EventsOf("submit") = {}
        /\ EventsOf("log") = {}
        /\ log_file = ""
        /\ full_log_file = ""

\* an interactive dry run the user said yes to has ended
C1_Witness ==
    /\ pc = "exit"
    /\ settings.dry_run
    /\ ~settings.quiet
    /\ \E k \in EventsOf("prompt") : trace[k].arg \in AffirmativeResponses

\* C2: a log entry is appended for a file exactly when the scheduler was
\* called for it and reported success; the number of entries of each log is
\* the number of successful scheduler calls, and a failed call appends
\* nothing
C2_LogIffSuccess ==
    /\ Entries(log_file) = Cardinality(SuccessfulCalls)
    /\ Entries(full_log_file) = Cardinality(SuccessfulCalls)
    /\ \A f \in 1..Len(files) :
         (\E k \in EventsOf("log") : trace[k].file = f)
           <=> (\E k \in SuccessfulCalls : trace[k].file = f)
    /\ \A k \in EventsOf("log") :
         k > 1 /\ trace[k - 1].ev = "submit" /\ trace[k - 1].file = trace[k].file
         /\ trace[k - 1].arg = "0"

\* a run has ended with one call that succeeded and one that failed
C2_Witness ==
    /\ pc = "exit"
    /\ SuccessfulCalls # {}
    /\ EventsOf("submit") \ SuccessfulCalls # {}

\* C3: when quiet is off the scheduler is called for a file only after the
\* prompt for that file was answered with an affirmative token; when quiet
\* is on no prompt is issued at all
C3_ConfirmBeforeSubmit ==
    pc # "parse" =>
        /\ ~settings.quiet =>
             \A k \in EventsOf("submit") :
               \E j \in EventsOf("prompt") :
                 /\ j < k
                 /\ trace[j].file = trace[k].file
                 /\ trace[j].arg \in AffirmativeResponses
        /\ settings.quiet => EventsOf("prompt") = {}

\* an interactive run has called the scheduler after a declined file
C3_Witness ==
    /\ ~settings.quiet
    /\ EventsOf("submit") # {}
    /\ \E j \in EventsOf("prompt") : trace[j].arg \notin AffirmativeResponses

\* the positions in files that an operation named ev was done for
FilesOf(ev) == {trace[k].file : k \in EventsOf(ev)}

\* the paths validation has to accept: the files of the working directory
\* (none is created or removed by a run) whose extension is .com in any case
AcceptedPaths ==
    {p \in DOMAIN InputFiles :
        Len(p) >= 4 /\ Lower(SubSeq(p, Len(p) - 3, Len(p))) = ".com"}

\* a resolved path that validation has to reject: no such file, or a file
\* whose extension is not .com
Rejected(p) == p \notin AcceptedPaths

\* the position in files of the first file whose resolved path validation
\* has to reject, Len(files) + 1 when no resolved path is
FirstRejected ==
    Least({trace[k].file : k \in {j \in EventsOf("resolve") : Rejected(trace[j].arg)}}
          \cup {Len(files) + 1})

\* C4: when validation of the k-th file fails the run ends with a non-zero
\* status, nothing is done for a file after position k, and the failing
\* file is neither corrected nor submitted
C4_ValidationFatal ==
    \A k \in EventsOf("resolve") :
        Rejected(trace[k].arg) =>
            /\ pc = "exit"
            /\ exit_code # 0
            /\ \A j \in DOMAIN trace : trace[j].file <= trace[k].file
            /\ \A j \in DOMAIN trace :
                 trace[j].file = trace[k].file => trace[j].ev \in {"resolve", "validate"}

\* the second of three files failed validation after the first was submitted
C4_Witness ==
    /\ Len(files) = 3
    /\ 1 \in FilesOf("submit")
    /\ \E k \in EventsOf("resolve") : trace[k].file = 2 /\ Rejected(trace[k].arg)

\* the prompts that were answered with something else than y or yes
Declined == {k \in EventsOf("prompt") : trace[k].arg \notin AffirmativeResponses}

\* the file at position g went through resolve, validate and correct and
\* was offered for submission
Offered(g) ==
    /\ g \in FilesOf("resolve")
    /\ g \in FilesOf("validate")
    /\ g \in FilesOf("correct")
    /\ g \in FilesOf("prompt")

\* the declined file is not submitted and not logged, and the next thing
\* done after the prompt at k is the resolve of the next file
AbortsThisFileOnly(k) ==
    /\ trace[k].file \notin FilesOf("submit") \cup FilesOf("log")
    /\ k < Len(trace) =>
         trace[k + 1].ev = "resolve" /\ trace[k + 1].file = trace[k].file + 1
    /\ k = Len(trace) =>
         \/ pc = "file" /\ fidx = trace[k].file + 1
         \/ pc = "exit" /\ exit_code = 0 /\ trace[k].file = Len(files)

\* C5 as stated: after a prompt answered with something else than y or yes,
\* the file is not submitted and not logged, and at the end of the run
\* every later file in the list has been resolved, validated, corrected and
\* offered for submission
C5_EveryLaterFileOffered ==
    \A k \in Declined :
        /\ AbortsThisFileOnly(k)
        /\ pc = "exit" => \A g \in (trace[k].file + 1)..Len(files) : Offered(g)

\* C5: after a prompt answered with something else than y or yes, the file
\* is not submitted and not logged, the run goes on with the next file, and
\* at the end of the run every later file before the first one that fails
\* validation has been resolved, validated, corrected and offered for
\* submission
C5_LaterFilesOfferedUpToRejected ==
    \A k \in Declined :
        /\ AbortsThisFileOnly(k)
        /\ pc = "exit" => \A g \in (trace[k].file + 1)..(FirstRejected - 1) : Offered(g)

\* the first of two files was declined and the second was offered
C5_Witness ==
    /\ pc = "exit"
    /\ Len(files) = 2
    /\ \E k \in Declined : trace[k].file = 1
    /\ Offered(2)

\* the scheduler calls that failed
FailedCalls == EventsOf("submit") \ SuccessfulCalls

\* the file at position g went through resolve, validate, correct and the
\* decision, and through the scheduler call when the decision was to submit
Executed(g) ==
    /\ g \in FilesOf("resolve")
    /\ g \in FilesOf("validate")
    /\ g \in FilesOf("correct")
    /\ settings.quiet \/ g \in FilesOf("prompt")
    /\ (settings.quiet \/ \E j \in EventsOf("prompt") \ Declined : trace[j].file = g)
           => g \in FilesOf("submit")

\* the failed call at k left no log entry, and the next thing done after it
\* is the resolve of the next file
FailureIsNotFatal(k) ==
    /\ trace[k].file \notin FilesOf("log")
    /\ k < Len(trace) =>
         trace[k + 1].ev = "resolve" /\ trace[k + 1].file = trace[k].file + 1
    /\ k = Len(trace) =>
         \/ pc = "file" /\ fidx = trace[k].file + 1
         \/ pc = "exit" /\ exit_code = 0 /\ trace[k].file = Len(files)

\* C6 as stated: after a scheduler call that failed (executable missing or
\* non-zero exit status), at the end of the run every later file in the list
\* has been resolved, validated, corrected, decided on and executed
C6_EveryLaterFileExecuted ==
    \A k \in FailedCalls :
        /\ FailureIsNotFatal(k)
        /\ pc = "exit" => \A g \in (trace[k].file + 1)..Len(files) : Executed(g)

\* C6: after a scheduler call that failed (executable missing or non-zero
\* exit status) the run goes on with the next file, and at the end of the
\* run every later file before the first one that fails validation has been
\* resolved, validated, corrected, decided on and executed
C6_LaterFilesExecutedUpToRejected ==
    \A k \in FailedCalls :
        /\ FailureIsNotFatal(k)
        /\ pc = "exit" => \A g \in (trace[k].file + 1)..(FirstRejected - 1) : Executed(g)

\* the scheduler call for the first of three files failed and the other two
\* files were submitted
C6_Witness ==
    /\ pc = "exit"
    /\ Len(files) = 3
    /\ \E k \in FailedCalls : trace[k].file = 1
    /\ {2, 3} \subseteq FilesOf("submit")

\* C7: when parse ends on an unknown option or on an option without its
\* value, the exit status is not zero, the submission script and the input
\* files are as they were, and no file was looked at, no scheduler call made
\* and no log entry written
C7_ParseFailureTouchesNothing ==
    (\E k \in DOMAIN out : out[k] \in {"unknown_option", "missing_argument"}) =>
        /\ pc = "exit"
        /\ exit_code # 0
        /\ script_file = DEFAULT_SCRIPT_TEMPLATE
        /\ fs = InputFiles
        /\ trace = <<>>
        /\ log_file = ""
        /\ full_log_file = ""

\* parse ended on an unknown option that stands after two file names
C7_Witness ==
    /\ pc = "exit"
    /\ Len(files) = 2
    /\ \E k \in DOMAIN out : out[k] = "unknown_option"

\* ------------------------------------------------------------------------
\* Properties of the resolution of the settings
\* ------------------------------------------------------------------------

\* the fields of the settings that options and presets give values to
Fields ==
    {"queue", "cores", "memory_mb", "walltime", "gaussian_version", "maxdisk_mb"}

\* the option families that give a value to one of Fields
SettingKinds ==
    {"queue", "cores", "memory", "walltime", "version", "maxdisk", "preset"}

\* the token stream of an argument vector from position k on: one
\* [kind, value] for every option of SettingKinds, in order
RECURSIVE StreamFrom(_, _)
StreamFrom(args, k) ==
    IF k > Len(args) \/ args[k] = "--" THEN <<>>
    ELSE IF ~StartsWith(args[k], "-") \/ args[k] = "-" THEN StreamFrom(args, k + 1)
    ELSE IF OptionKind(args[k]) \notin SettingKinds THEN StreamFrom(args, k + 1)
    ELSE IF InlineValue(args[k]) # None
    THEN <<[kind |-> OptionKind(args[k]), value |-> InlineValue(args[k])[1]]>>
         \o StreamFrom(args, k + 1)
    ELSE IF k = Len(args) THEN <<>>
    ELSE <<[kind |-> OptionKind(args[k]), value |-> args[k + 1]]>>
         \o StreamFrom(args, k + 2)

TokenStream == StreamFrom(argv, 1)

\* the presets of the presets file, in the order of their numbers
Presets == iter_presets(PresetsFile)

\* the preset a preset token names
PresetOf(tok) == nth_preset(Presets, ParseInt(tok.value).val).preset

\* the value a token of the stream gives for field f, as an Optional: None
\* when the token is not about f or carries no amount to convert
Gives(tok, f) ==
    IF tok.kind = "preset" THEN Some(PresetOf(tok)[f])
    ELSE IF tok.kind = "queue" /\ f = "queue" THEN Some(tok.value)
    ELSE IF tok.kind = "cores" /\ f = "cores" THEN Some(ParseInt(tok.value).val)
    ELSE IF tok.kind = "memory" /\ f = "memory_mb"
    THEN parse_to_mb(Some(tok.value), None).val
    ELSE IF tok.kind = "walltime" /\ f = "walltime" THEN Some(tok.value)
    ELSE IF tok.kind = "version" /\ f = "gaussian_version"
    THEN Some(IF tok.value = "" THEN None ELSE Some(tok.value))
    ELSE IF tok.kind = "maxdisk" /\ f = "maxdisk_mb"
    THEN IF parse_to_mb(Some(tok.value), None).val = None THEN None
         ELSE Some(parse_to_mb(Some(tok.value), None).val)
    ELSE None

\* the same, with the values that leave the field as it was taken out: an
\* empty queue or walltime and a zero memory of an option or a preset, and
\* zero cores of a preset
GivesEffectively(tok, f) ==
    IF f \in {"queue", "walltime"}
    THEN IF Gives(tok, f) = Some("") THEN None ELSE Gives(tok, f)
    ELSE IF f = "memory_mb" \/ (f = "cores" /\ tok.kind = "preset")
    THEN IF Gives(tok, f) = Some(0) THEN None ELSE Gives(tok, f)
    ELSE Gives(tok, f)

\* the value of field f after the first k tokens of stream when every token
\* that gives a value for f sets it: that of the last such token, the
\* default when there is none
RECURSIVE LastGiven(_, _, _)
LastGiven(stream, k, f) ==
    IF k = 0 THEN DefaultSettings[f]
    ELSE IF Gives(stream[k], f) # None THEN Gives(stream[k], f)[1]
    ELSE LastGiven(stream, k - 1, f)

\* the same when only the tokens that give a value effectively set it
RECURSIVE LastGivenEffectively(_, _, _)
LastGivenEffectively(stream, k, f) ==
    IF k = 0 THEN DefaultSettings[f]
    ELSE IF GivesEffectively(stream[k], f) # None
    THEN GivesEffectively(stream[k], f)[1]
    ELSE LastGivenEffectively(stream, k - 1, f)

\* C8 as stated: when parse has returned, every field has the value given by
\* the last token of the stream that gives a value for it, option or preset,
\* whatever that value is
C8_LastTokenWins ==
    pc = "process_jobs" =>
        \A f \in Fields : settings[f] = LastGiven(TokenStream, Len(TokenStream), f)

\* C8: when parse has returned, every field has the value given by the last
\* token of the stream that gives a value for it, option or preset, where an
\* empty queue or walltime, a zero memory and zero cores of a preset do not
\* count as given; cores of an option, the version and the maxdisk of a
\* preset and of an option count with every value
C8_LastEffectiveTokenWins ==
    pc = "process_jobs" =>
        \A f \in Fields :
            settings[f] = LastGivenEffectively(TokenStream, Len(TokenStream), f)

\* parse has returned from a preset followed by a queue option, whose value
\* the queue has, and by a memory option of zero, which left the memory of
\* the preset
C8_Witness ==
    /\ pc = "process_jobs"
    /\ Len(TokenStream) = 3
    /\ TokenStream[1].kind = "preset"
    /\ TokenStream[2].kind = "queue"
    /\ TokenStream[3].kind = "memory"
    /\ settings.queue = TokenStream[2].value
    /\ settings.queue # PresetOf(TokenStream[1]).queue
    /\ Gives(TokenStream[3], "memory_mb") = Some(0)
    /\ settings.memory_mb = PresetOf(TokenStream[1]).memory_mb
    /\ settings.memory_mb # DefaultSettings.memory_mb

\* the step of parse that applies a preset: the token at i is a preset
\* option and the loop goes on after it
AppliesPreset ==
    /\ pc = "parse"
    /\ i < Len(argv)
    /\ StartsWith(argv[i + 1], "-")
    /\ argv[i + 1] \notin {"-", "--"}
    /\ OptionKind(argv[i + 1]) = "preset"
    /\ pc' = "parse"
    /\ i' > i

\* the number the preset option at i carries
PresetNumber == ParseInt(take_value(argv, i, InlineValue(argv[i + 1])).value).val

\* the preset of that number in the presets file
PresetAtNumber == nth_preset(Presets, PresetNumber).preset

\* C9 as stated: after a preset is applied, queue, cores, memory and walltime
\* are those of the preset and preset_loaded is its number
C9_PresetOverwrites ==
    [][AppliesPreset =>
         /\ settings'.queue = PresetAtNumber.queue
         /\ settings'.cores = PresetAtNumber.cores
         /\ settings'.memory_mb = PresetAtNumber.memory_mb
         /\ settings'.walltime = PresetAtNumber.walltime
         /\ settings'.preset_loaded = Some(PresetNumber)]_vars

\* C9: after a preset is applied, queue and walltime are those of the preset
\* when they are not empty, cores and memory are those of the preset when
\* they are not zero, each is what it was before otherwise, and
\* preset_loaded is the number of the preset
C9_PresetOverwritesWhereItHasValues ==
    [][AppliesPreset =>
         /\ settings'.queue = IF PresetAtNumber.queue # "" THEN PresetAtNumber.queue
                              ELSE settings.queue
         /\ settings'.cores = IF PresetAtNumber.cores # 0 THEN PresetAtNumber.cores
                              ELSE settings.cores
         /\ settings'.memory_mb = IF PresetAtNumber.memory_mb # 0
                                  THEN PresetAtNumber.memory_mb
                                  ELSE settings.memory_mb
         /\ settings'.walltime = IF PresetAtNumber.walltime # ""
                                 THEN PresetAtNumber.walltime
                                 ELSE settings.walltime
         /\ settings'.preset_loaded = Some(PresetNumber)]_vars

\* argv starts with k options that carry their value inline, of the
\* families kinds[1] .. kinds[k]
StartsWithOptions(kinds) ==
    /\ Len(argv) >= Len(kinds)
    /\ \A k \in DOMAIN kinds :
         /\ StartsWith(argv[k], "-")
         /\ OptionKind(argv[k]) = kinds[k]
         /\ InlineValue(argv[k]) # None

\* the preset with an empty queue and zero cores was applied after one
\* option had set the queue and another the cores, and both are still there
C9_Witness ==
    /\ i = 3
    /\ StartsWithOptions(<<"queue", "cores", "preset">>)
    /\ settings.preset_loaded # None
    /\ nth_preset(Presets, settings.preset_loaded[1]).preset.queue = ""
    /\ nth_preset(Presets, settings.preset_loaded[1]).preset.cores = 0
    /\ settings.queue = InlineValue(argv[1])[1]
    /\ settings.cores = ParseInt(InlineValue(argv[2])[1]).val
    /\ settings.cores # 0

\* C10: after a preset is applied, the version and the maxdisk are those of
\* the preset, absent when the preset has none, whatever they were before
C10_PresetSubstitutesOptionalFields ==
    [][AppliesPreset =>
         /\ settings'.gaussian_version = PresetAtNumber.gaussian_version
         /\ settings'.maxdisk_mb = PresetAtNumber.maxdisk_mb
         /\ PresetAtNumber.gaussian_version = None => settings'.gaussian_version = None
         /\ PresetAtNumber.maxdisk_mb = None => settings'.maxdisk_mb = None]_vars

\* a preset without version and maxdisk was applied after one option had
\* set the version and another the maxdisk, and both are absent
C10_Witness ==
    /\ i = 3
    /\ StartsWithOptions(<<"version", "maxdisk", "preset">>)
    /\ settings.preset_loaded # None
    /\ nth_preset(Presets, settings.preset_loaded[1]).preset.gaussian_version = None
    /\ nth_preset(Presets, settings.preset_loaded[1]).preset.maxdisk_mb = None
    /\ settings.gaussian_version = None
    /\ settings.maxdisk_mb = None

\* ------------------------------------------------------------------------
\* Properties of the presets file
\* ------------------------------------------------------------------------

\* a line of the presets file that holds a preset: not blank, not a
\* comment, and accepted by from_line
HoldsPreset(line) ==
    /\ Strip(line) # ""
    /\ ~StartsWith(Strip(line), "##")
    /\ ~from_line(Strip(line)).err

\* pairs are numbered 1, 2, ... and carry the presets of the lines valid,
\* in their order
NumberedInOrder(pairs, valid) ==
    /\ Len(pairs) = Len(valid)
    /\ \A j \in DOMAIN pairs :
         /\ pairs[j][1] = j
         /\ pairs[j][2] = from_line(Strip(valid[j])).preset

\* C11: iter_presets yields the presets of the lines that hold one, in file
\* order, numbered 1, 2, ..., k without a gap, k being the number of such
\* lines; blank lines, comments and rejected lines take no number
C11_PresetNumbering ==
    NumberedInOrder(iter_presets(presets_file),
                    SelectSeq(SplitLines(presets_file), HoldsPreset))

\* the second preset of a file whose first line holds a preset, whose
\* second line is rejected and whose third line holds a preset was selected
C11_Witness ==
    /\ pc = "process_jobs"
    /\ settings.preset_loaded = Some(2)
    /\ Len(SplitLines(presets_file)) = 3
    /\ HoldsPreset(SplitLines(presets_file)[1])
    /\ Strip(SplitLines(presets_file)[2]) # ""
    /\ ~StartsWith(Strip(SplitLines(presets_file)[2]), "##")
    /\ ~HoldsPreset(SplitLines(presets_file)[2])
    /\ HoldsPreset(SplitLines(presets_file)[3])
    /\ settings.cores = from_line(Strip(SplitLines(presets_file)[3])).preset.cores
    /\ settings.cores # from_line(Strip(SplitLines(presets_file)[1])).preset.cores

\* what was printed holds the message tag
Printed(tag) == \E k \in DOMAIN out : out[k] = tag

\* C12 as stated: when a preset number outside 1 .. count is selected, the
\* run ends with a non-zero status, the settings are those before the
\* option, no file was touched, and the listing of the presets was printed
C12_ListingOnPresetNotFound ==
    Printed("preset_not_found") =>
        /\ pc = "exit"
        /\ exit_code # 0
        /\ settings.preset_loaded # Some(PresetNumber)
        /\ script_file = DEFAULT_SCRIPT_TEMPLATE
        /\ fs = InputFiles
        /\ trace = <<>>
        /\ log_file = ""
        /\ full_log_file = ""
        /\ Printed("presets_listing")

\* what the code does for a preset number outside 1 .. count: the run ends
\* with a non-zero status and nothing touched, and no listing is printed
C12_PresetNotFoundWithoutListing ==
    Printed("preset_not_found") =>
        /\ pc = "exit"
        /\ exit_code # 0
        /\ settings.preset_loaded # Some(PresetNumber)
        /\ script_file = DEFAULT_SCRIPT_TEMPLATE
        /\ fs = InputFiles
        /\ trace = <<>>
        /\ log_file = ""
        /\ full_log_file = ""
        /\ ~Printed("presets_listing")

\* preset 4 of three was selected after a file name
C12_Witness ==
    /\ pc = "exit"
    /\ Printed("preset_not_found")
    /\ Len(files) = 1
    /\ argv[i + 1] = "-p4"

\* ------------------------------------------------------------------------
\* Properties of the two editors
\* ------------------------------------------------------------------------

\* the positions of the lines that start with prefix once trimmed
MatchesExactly(L, prefix) == {j \in DOMAIN L : StartsWith(Strip(L[j]), prefix)}

\* the same without regard to case
MatchesLowered(L, lowered) ==
    {j \in DOMAIN L :
        /\ Len(Strip(L[j])) >= Len(lowered)
        /\ Lower(SubSeq(Strip(L[j]), 1, Len(lowered))) = lowered}

MatchesAnyCase(L, prefix) == MatchesLowered(L, Lower(prefix))

\* result is L with the first line of M replaced and nothing else
\* changed, when M is not empty
ReplacesFirst(L, M, replacement, result) ==
    M # {} => result = [L EXCEPT ![Least(M)] = replacement]

\* the three directives of the input file: keyword, line, fallback index
InputDirectives(stem, s) ==
    << <<"%mem", "%mem=" \o ToStr((s.memory_mb * 15) \div 20) \o "MB", 0>>,
       <<"%nprocshared", "%nprocshared=" \o ToStr(s.cores), 1>>,
       <<"%chk", "%chk=" \o stem \o ".chk", 2>> >>

\* the lines the k-th directive of the input file is applied to
RECURSIVE InputStage(_, _, _)
InputStage(lines, d, k) ==
    IF k = 1 THEN lines
    ELSE update_directive(InputStage(lines, d, k - 1), d[k - 1][1], d[k - 1][2],
                          d[k - 1][3])

\* the directives of the submission script: prefix, line, insertion index;
\* the third is skipped for the public queue and the fourth without a version
ScriptDirectives(s) ==
    << <<"#PBS -lselect=1:ncpus=", resources(s), None>>,
       <<"#PBS -l walltime=", "#PBS -l walltime=" \o s.walltime, None>>,
       <<"#PBS -q ", "#PBS -q " \o s.queue, Some(QueueInsertIndex)>>,
       <<"module load gaussian/",
         "module load gaussian/g09-"
         \o (IF s.gaussian_version = None THEN "" ELSE s.gaussian_version[1]),
         None>> >>

\* whether update applies the k-th directive of the script
ScriptDirectiveApplies(s, k) ==
    /\ k = 3 => Upper(s.queue) # "PUBLIC"
    /\ k = 4 => s.gaussian_version # None

\* the lines the k-th directive of the script is applied to
ScriptStage(content, s, k) ==
    IF k = 1 THEN content
    ELSE IF k = 2
    THEN replace_line(content, "#PBS -lselect=1:ncpus=", resources(s), None)
    ELSE IF k = 3
    THEN replace_line(
             replace_line(content, "#PBS -lselect=1:ncpus=", resources(s), None),
             "#PBS -l walltime=", "#PBS -l walltime=" \o s.walltime, None)
    ELSE update_queue(
             replace_line(
                 replace_line(content, "#PBS -lselect=1:ncpus=", resources(s), None),
                 "#PBS -l walltime=", "#PBS -l walltime=" \o s.walltime, None),
             s)

\* the editor of the input file is about to read the file at path for the
\* first time
AtCorrect == pc = "correct" /\ corrects(fs, path, settings)

\* the editor of the script is about to read the script for the first time
AtUpdate == pc = "update"

\* the k-th directive of the input file, on the lines L it is applied to,
\* replaces the first line that matches in any case
InputReplacesFirst(L, d) ==
    ReplacesFirst(L, MatchesAnyCase(L, d[1]), d[2],
                  update_directive(L, d[1], d[2], d[3]))

\* the k-th directive of the script, on the lines L it is applied to,
\* replaces the first line that matches in any case
ScriptReplacesFirstAnyCase(L, d) ==
    ReplacesFirst(L, MatchesAnyCase(L, d[1]), d[2],
                  replace_line(L, d[1], d[2], d[3]))

\* the same for the first line that matches as it is spelled
ScriptReplacesFirstExactly(L, d) ==
    ReplacesFirst(L, MatchesExactly(L, d[1]), d[2],
                  replace_line(L, d[1], d[2], d[3]))

InsertsAt(L, M, replacement, at, result) ==
    M = {} =>
        /\ Len(result) = Len(L) + 1
        /\ Len(result) > at
        /\ result[at + 1] = replacement
        /\ \A j \in 1..at : result[j] = L[j]
        /\ \A j \in (at + 1)..Len(L) : result[j + 1] = L[j]

\* the index list.insert(index, x) puts x at in a list of n lines
InsertIndex(index, n) == IF index < n THEN index ELSE n

\* the k-th directive of the input file, on the lines L it is applied to
\* and that it does not match, adds its line at its fallback index
InputInsertsAtFallback(L, d) ==
    InsertsAt(L, MatchesAnyCase(L, d[1]), d[2], d[3],
              update_directive(L, d[1], d[2], d[3]))

\* the queue directive d of the script, on the lines L it is applied to and
\* that it does not match, adds its line at its fallback index
ScriptInsertsAtFallback(L, d) ==
    InsertsAt(L, MatchesExactly(L, d[1]), d[2], d[3][1],
              replace_line(L, d[1], d[2], d[3]))

\* the same at the fallback index or, for a shorter list, at its end
ScriptInsertsAtFallbackOrEnd(L, d) ==
    InsertsAt(L, MatchesExactly(L, d[1]), d[2], InsertIndex(d[3][1], Len(L)),
              replace_line(L, d[1], d[2], d[3]))

\* C14 as stated: a directive that matches no line makes the list one line
\* longer with its line at exactly the fallback index (13 for the queue
\* directive of the script; 0, 1, 2 for the directives of the input file),
\* also for a list shorter than that index, and the original lines keep
\* their order
C14_InsertsAtFallbackIndex ==
    /\ AtCorrect =>
         \A k \in 1..3 :
             InputInsertsAtFallback(
                 InputStage(SplitLines(fs[path]),
                            InputDirectives(PathStem(path), settings), k),
                 InputDirectives(PathStem(path), settings)[k])
    /\ AtUpdate /\ ScriptDirectiveApplies(settings, 3) =>
         ScriptInsertsAtFallback(ScriptStage(SplitLines(script_file), settings, 3),
                                 ScriptDirectives(settings)[3])

\* C14: a directive that matches no line makes the list one line longer and
\* the original lines keep their order; the new line is at index 0, 1, 2 for
\* the directives of the input file, and for the queue directive of the
\* script at index 13 or, when the list has fewer than 13 lines, at its end
C14_InsertsAtFallbackIndexOrEnd ==
    /\ AtCorrect =>
         \A k \in 1..3 :
             InputInsertsAtFallback(
                 InputStage(SplitLines(fs[path]),
                            InputDirectives(PathStem(path), settings), k),
                 InputDirectives(PathStem(path), settings)[k])
    /\ AtUpdate /\ ScriptDirectiveApplies(settings, 3) =>
         ScriptInsertsAtFallbackOrEnd(
             ScriptStage(SplitLines(script_file), settings, 3),
             ScriptDirectives(settings)[3])

\* an empty script was updated for a queue: the queue directive is its
\* third line, after the resources and the walltime; and a script of 14
\* lines without a queue directive has it at index 13
C14_Witness ==
    /\ pc = "correct"
    /\ Upper(settings.queue) # "PUBLIC"
    /\ \E k \in EventsOf("script_read") :
         \/ /\ trace[k].arg = ""
            /\ SplitLines(trace[k + 1].arg)[3] = ScriptDirectives(settings)[3][2]
         \/ /\ SplitLines(trace[k].arg) = Padding(QueueInsertIndex + 1)
            /\ SplitLines(trace[k + 1].arg)[QueueInsertIndex + 1]
               = ScriptDirectives(settings)[3][2]

\* both editors have run once and the input file was corrected
AfterFirstRun == pc = "update_again" /\ corrects(fs, path, settings)

\* the first line of L among those at the positions M
FirstOf(L, M) == L[Least(M)]

\* the memory directive of the input file at path
MemoryDirective ==
    FirstOf(SplitLines(fs[path]), MatchesLowered(SplitLines(fs[path]), "%mem"))

\* C15 as stated: the memory directive written into the input file carries
\* (m div 20) * 15 for the configured memory m
C15_DividesThenMultiplies ==
    AfterFirstRun =>
        MemoryDirective
        = "%mem=" \o ToStr((settings.memory_mb \div 20) * 15) \o "MB"

\* C15: the memory directive written into the input file carries
\* (m * 15) div 20 for the configured memory m, the multiplication first
C15_MultipliesThenDivides ==
    AfterFirstRun =>
        MemoryDirective
        = "%mem=" \o ToStr((settings.memory_mb * 15) \div 20) \o "MB"

\* the default memory, which 20 does not divide, was written as 35991
C15_Witness ==
    /\ AfterFirstRun
    /\ settings.memory_mb = 47988
    /\ MemoryDirective = "%mem=35991MB"

\* the number in the text "%mem=<number>MB"
DirectiveValueOf(line) == ParseInt(SubSeq(line, 6, Len(line) - 2)).val

\* the number after "mem=" in the text "<number>MB..."
RequestedValueOf(rest) == ParseInt(SubSeq(rest, 1, Find(rest, "M") - 1)).val

\* the memory the resource line of the script asks the scheduler for
RequestedMemory(L, prefix) ==
    RequestedValueOf(From(FirstOf(L, MatchesExactly(L, prefix)), Len(prefix)))

\* the amount in the memory directive of the input file at path
DirectiveMemory == DirectiveValueOf(MemoryDirective)

\* the amount in the resource line of the script
ScriptMemory ==
    RequestedMemory(SplitLines(script_file),
                    "#PBS -lselect=1:ncpus=" \o ToStr(settings.cores) \o ":mem=")

\* C16 as stated: the memory directive of the input file carries
\* floor(m * 15 / 20), which is 36000 for 48000, and never more than the
\* memory the resource line of the script requests
C16_NeverExceedsRequest ==
    AfterFirstRun =>
        /\ DirectiveMemory = (settings.memory_mb * 15) \div 20
        /\ settings.memory_mb = 48000 => DirectiveMemory = 36000
        /\ DirectiveMemory <= ScriptMemory

\* C16: the memory directive of the input file carries floor(m * 15 / 20),
\* which is 36000 for 48000; it is at most the memory m the resource line of
\* the script requests when m is not negative (and down to -3), and more
\* than it when m is -4 or less
C16_ExceedsRequestOnlyForNegativeMemory ==
    AfterFirstRun =>
        /\ DirectiveMemory = (settings.memory_mb * 15) \div 20
        /\ settings.memory_mb = 48000 => DirectiveMemory = 36000
        /\ ScriptMemory = settings.memory_mb
        /\ settings.memory_mb >= 0 - 3 => DirectiveMemory <= ScriptMemory
        /\ settings.memory_mb < 0 - 3 => DirectiveMemory > ScriptMemory

\* 48000 was requested in the script and 36000 written into the input file
C16_Witness ==
    /\ AfterFirstRun
    /\ ScriptMemory = 48000
    /\ DirectiveMemory = 36000

\* the text the first correction read from the input file
FirstRead == trace[Least(EventsOf("input_read"))].arg

\* none of the three directives of the input file starts a line of L
NoDirectives(L) ==
    \A keyword \in {"%mem", "%nprocshared", "%chk"} : MatchesLowered(L, keyword) = {}

\* the three directive lines of the input file
DirectiveLines(d) == <<d[1][2], d[2][2], d[3][2]>>

\* the maxdisk line of the settings s, which have one
MaxDiskLine(s) == "maxdisk=" \o ToStr(s.maxdisk_mb[1]) \o "MB"

\* written is what the claim expects for the lines original, which hold
\* none of the three directives: the directives d, the original lines and,
\* if a maxdisk is configured and no line has one, the maxdisk line
DirectivesThenOriginal(original, d, s, written) ==
    IF s.maxdisk_mb # None /\ MatchesLowered(original, "maxdisk") = {}
    THEN written = DirectiveLines(d) \o original \o <<MaxDiskLine(s)>>
    ELSE written = DirectiveLines(d) \o original

\* the same, but with the first maxdisk line of original replaced when a
\* maxdisk is configured and some line has one
DirectivesThenOriginalWithMaxDisk(original, d, s, written) ==
    IF s.maxdisk_mb = None
    THEN written = DirectiveLines(d) \o original
    ELSE IF MatchesLowered(original, "maxdisk") = {}
    THEN written = DirectiveLines(d) \o original \o <<MaxDiskLine(s)>>
    ELSE written
         = DirectiveLines(d)
           \o [original EXCEPT ![Least(MatchesLowered(original, "maxdisk"))]
                                 = MaxDiskLine(s)]

\* C17 as stated: after the correction of a file that held none of the
\* memory, core-count and checkpoint directives, lines 0, 1 and 2 are these
\* directives, all the original lines follow in their order, and the
\* maxdisk directive is the last line when it is configured and was absent
C17_DirectivesThenOriginalLines ==
    AfterFirstRun /\ NoDirectives(SplitLines(FirstRead)) =>
        DirectivesThenOriginal(SplitLines(FirstRead),
                               InputDirectives(PathStem(path), settings),
                               settings, SplitLines(fs[path]))

\* C17: after the correction of a file that held none of the memory,
\* core-count and checkpoint directives, lines 0, 1 and 2 are these
\* directives and the original lines follow in their order, except that
\* with a maxdisk configured the first maxdisk line is replaced by the
\* maxdisk directive, which is added as the last line when there is none
C17_DirectivesThenOriginalLinesWithMaxDisk ==
    AfterFirstRun /\ NoDirectives(SplitLines(FirstRead)) =>
        DirectivesThenOriginalWithMaxDisk(SplitLines(FirstRead),
                                          InputDirectives(PathStem(path), settings),
                                          settings, SplitLines(fs[path]))

\* a file of one route line was corrected with a maxdisk configured
C17_Witness ==
    /\ AfterFirstRun
    /\ settings.maxdisk_mb # None
    /\ FirstRead = "# hf\n"
    /\ SplitLines(fs[path])
       = <<"%mem=35991MB", "%nprocshared=4", "%chk=a.chk", "# hf", "maxdisk=800MB">>

\* correct is called although correction is disabled or the file at path
\* does not exist
CorrectIsNoOp == pc \in {"correct", "correct_again"} /\ ~corrects(fs, path, settings)

\* C18: when correction is disabled or the input file does not exist,
\* correct returns without an error and without a read or a write: the
\* file system is as it was and the run goes on
C18_NoOpWhenDisabledOrMissing ==
    [][CorrectIsNoOp =>
          /\ fs' = fs
          /\ trace' = trace
          /\ exit_code' = exit_code
          /\ pc' = IF pc = "correct" THEN "update_again" ELSE "done"]_vars

\* correct has returned on a file with a memory directive of its own while
\* correction was disabled, and the file still holds it
C18_Witness ==
    /\ pc = "update_again"
    /\ ~settings.correction_enabled
    /\ path \in DOMAIN fs
    /\ fs[path] = " %Mem=2GB\n"
    /\ EventsOf("input_write") = {}

\* every operation named ev wrote the same text
WritesAgree(ev) == \A j, k \in EventsOf(ev) : trace[j].arg = trace[k].arg

\* the queue name of the settings is nothing but whitespace
BlankQueue == Strip(settings.queue) = ""

\* C19 as stated: for fixed settings, a second update of the submission
\* script writes the lines the first wrote, and a second correction of the
\* input file writes the lines the first wrote
C19_EditorsIdempotent ==
    /\ WritesAgree("script_write")
    /\ WritesAgree("input_write")

\* what holds of C19: the second correction of the input file always writes
\* what the first wrote, and so does the second update of the script unless
\* the queue name is blank
C19_EditorsIdempotentUnlessBlankQueue ==
    /\ ~BlankQueue => WritesAgree("script_write")
    /\ WritesAgree("input_write")

\* the script was updated twice for a blank queue name and holds two queue
\* directives where the first update had left one
C19_Witness ==
    /\ pc = "correct_again"
    /\ BlankQueue
    /\ \E j, k \in EventsOf("script_write") :
         /\ Cardinality(MatchesExactly(SplitLines(trace[j].arg), "#PBS -q")) = 1
         /\ Cardinality(MatchesExactly(SplitLines(trace[k].arg), "#PBS -q")) = 2

\* the script was updated once
AfterFirstUpdate == pc = "correct"

\* the text the first update read from the script
FirstScriptRead == trace[Least(EventsOf("script_read"))].arg

\* the lines of L that are no directive update rewrites for the settings s:
\* neither a queue directive nor a resources or walltime directive nor, with
\* a version configured, a module line
OtherLines(L, s) ==
    LET Other(line) ==
            \A k \in {j \in 1..4 : j = 3 \/ ScriptDirectiveApplies(s, j)} :
                ~StartsWith(Strip(line), ScriptDirectives(s)[k][1])
    IN SelectSeq(L, Other)

Rewrites == Cardinality(EventsOf("script_write"))

\* process_jobs is in its loop over the files
InLoop == pc \in {"file", "confirm", "submit"}

\* C20: in a run of process_jobs on a file list that is not empty the
\* submission script is written exactly once: the write is the first
\* operation of the run, before any file is resolved, validated or corrected
\* and before any scheduler call, it is in place throughout the loop, and no
\* later step writes the script or changes it
C20_ScriptRewrittenOnceBeforeFiles ==
    /\ [](InLoop => Rewrites = 1 /\ trace[1].ev = "script_write")
    /\ [][(Rewrites' # Rewrites \/ script_file' # script_file) =>
             /\ pc = "process_jobs"
             /\ files # <<>>
             /\ trace = <<>>
             /\ Rewrites' = 1]_vars

\* a run over two files has ended with both corrected and submitted, and
\* the script, changed by the run, was written once
C20_Witness ==
    /\ pc = "exit"
    /\ Len(files) = 2
    /\ FilesOf("correct") = {1, 2}
    /\ FilesOf("submit") = {1, 2}
    /\ script_file # DEFAULT_SCRIPT_TEMPLATE
    /\ Rewrites = 1

\* ------------------------------------------------------------------------
\* Properties of UnitParser and of the lines of presets
\* ------------------------------------------------------------------------

\* x is a count written in digits the way str() writes it, with no suffix
PlainCount(x) == x # "" /\ AllDigits(x) /\ ToStr(DigitsToNat(x, 0)) = x

\* x is such a count followed by the suffix GB
CleanGB(x) == EndsWith(x, "GB") /\ PlainCount(SubSeq(x, 1, Len(x) - 2))

\* the size text given to parse_to_mb has gone through it
Parsed == argv # <<>> /\ pc \in {"format_mb", "done", "exit"}

\* the size text given to parse_to_mb was parsed and formatted back
Formatted == argv # <<>> /\ pc = "done"

\* C22 as stated: a count written with no suffix, and a count written with
\* the suffix GB, is parsed without an error and formatted back to the text
\* it was
C22_FormatOfParseIsIdentity ==
    /\ Parsed /\ (PlainCount(argv[1]) \/ CleanGB(argv[1])) => pc # "exit"
    /\ Formatted /\ (PlainCount(argv[1]) \/ CleanGB(argv[1])) => out[1] = argv[1]

\* C22: a count written with no suffix, and a count written with the suffix
\* GB, is parsed without an error; the one with GB is formatted back to the
\* text it was, the one with no suffix to the same count with the suffix MB
\* or, when 1000 divides it, to its thousandth with the suffix GB, and the
\* formatted text parses to the same value
C22_FormatOfParseAddsSuffix ==
    /\ Parsed /\ (PlainCount(argv[1]) \/ CleanGB(argv[1])) => pc # "exit"
    /\ Formatted /\ CleanGB(argv[1]) => out[1] = argv[1]
    /\ Formatted /\ PlainCount(argv[1]) =>
         /\ out[1] = IF DigitsToNat(argv[1], 0) % 1000 = 0
                     THEN ToStr(DigitsToNat(argv[1], 0) \div 1000) \o "GB"
                     ELSE argv[1] \o "MB"
         /\ parse_to_mb(Some(out[1]), None).val = settings.maxdisk_mb

\* the text 1000 was parsed and formatted back as 1GB
C22_Witness ==
    /\ Formatted
    /\ argv[1] = "1000"
    /\ settings.maxdisk_mb = Some(1000)
    /\ out = <<"1GB">>

\* a preset is being written as a line and read back
OnPreset == argv = <<>> /\ pc \in {"to_line", "from_line", "done"}

\* parse_to_mb gives v back for the text format_mb writes for v
ParseOfFormatIs(v) ==
    parse_to_mb(Some(format_mb(v)), None) = [err |-> FALSE, val |-> Some(v)]

\* C28: parse_to_mb(format_mb(v)) = v for the memory and the maxdisk of every
\* preset, which are not negative, and from_line on the line to_line wrote
\* for a preset succeeds and gives the memory and the maxdisk of the preset
C28_ParseOfFormatIsIdentity ==
    /\ [](OnPreset =>
            /\ ParseOfFormatIs(settings.memory_mb)
            /\ settings.maxdisk_mb # None => ParseOfFormatIs(settings.maxdisk_mb[1]))
    /\ [][pc = "from_line" =>
             /\ pc' = "done"
             /\ settings'.memory_mb = settings.memory_mb
             /\ settings'.maxdisk_mb = settings.maxdisk_mb]_vars

\* the preset with 48000 MB of memory and 400000 MB of maxdisk was written
\* with both in GB and read back
C28_Witness ==
    /\ argv = <<>>
    /\ pc = "done"
    /\ presets_file = "pqph;12;48GB;119:59:00;;400GB\n"
    /\ settings.memory_mb = 48000
    /\ settings.maxdisk_mb = Some(400000)

\* ------------------------------------------------------------------------
\* Properties of the scheduler command and of the resolution of files
\* ------------------------------------------------------------------------

\* the first min(15, Len(stem)) characters of stem
JobNameOf(stem) == SubSeq(stem, 1, IF Len(stem) <= 15 THEN Len(stem) ELSE 15)

\* the command the claim describes for a priority flag, a stem and a script
ExpectedCommand(force, stem, script) ==
    IF force
    THEN <<"qsub", "-p", "100", "-N", JobNameOf(stem), "-v", "in=" \o stem, script>>
    ELSE <<"qsub", "-N", JobNameOf(stem), "-v", "in=" \o stem, script>>

\* process_jobs has built the command for the file at path
CommandBuilt == command # <<>>

\* C23: the command built for a file is the executable, the priority pair
\* exactly when force_priority is set, the name flag with the first
\* min(15, length) characters of the stem of the file, the variable flag
\* with the whole stem, and the script path, whatever the other settings are
C23_CommandIsFunctionOfPriorityAndStem ==
    CommandBuilt =>
        command = ExpectedCommand(settings.force_priority, PathStem(path), ScriptPath)

\* the command was built with priority and four cores for a stem of 21
\* characters, and names the job by its first 15
C23_Witness ==
    /\ CommandBuilt
    /\ settings.force_priority
    /\ settings.cores = 4
    /\ path = "water_dimer_b3lyp_opt.com"
    /\ command
       = <<"qsub", "-p", "100", "-N", "water_dimer_b3l", "-v",
           "in=water_dimer_b3lyp_opt", ScriptPath>>

\* the file argument the resolve operation at position k of trace was for
Literal(k) == files[trace[k].file]

\* raw ends with the extension .com
HasExtension(raw) == EndsWith(raw, ".com")

\* raw, a name without directories, with its last extension replaced by
\* .com, or with .com added when it has none
ExtensionReplaced(raw) ==
    IF \E k \in 2..(Len(raw) - 1) : Chr(raw, k) = "."
    THEN SubSeq(raw, 1, Greatest({k \in 2..(Len(raw) - 1) : Chr(raw, k) = "."}) - 1)
         \o ".com"
    ELSE raw \o ".com"

\* the resolve operation at position k of trace gave the literal if it
\* exists, else the alternative if the literal lacks the extension and the
\* alternative exists, else the literal, which validation then rejected
ResolvesTo(k, alternative) ==
    IF Literal(k) \in DOMAIN fs THEN trace[k].arg = Literal(k)
    ELSE IF ~HasExtension(Literal(k)) /\ alternative \in DOMAIN fs
    THEN trace[k].arg = alternative
    ELSE /\ trace[k].arg = Literal(k)
         /\ trace[k + 1].ev = "validate"
         /\ trace[k + 1].arg # "ok"

\* C26 as stated: resolve gives the literal path when it exists; otherwise,
\* when the literal lacks the extension and the literal with .com appended
\* to its full name exists, that path; otherwise the literal, which
\* validation rejects
C26_ResolveAppendsExtension ==
    \A k \in EventsOf("resolve") : ResolvesTo(k, Literal(k) \o ".com")

\* what holds of C26: the same with the alternative being the literal with
\* its last extension replaced by .com, or with .com added when it has none
C26_ResolveReplacesExtension ==
    \A k \in EventsOf("resolve") : ResolvesTo(k, ExtensionReplaced(Literal(k)))

\* the argument g.dat, which names no file, was resolved to g.com although
\* g.dat.com does not exist, and the file was accepted
C26_Witness ==
    /\ "g.dat.com" \notin DOMAIN fs
    /\ \E k \in EventsOf("resolve") :
         /\ Literal(k) = "g.dat"
         /\ trace[k].arg = "g.com"
         /\ trace[k + 1].arg = "ok"

\* ------------------------------------------------------------------------
\* Properties of the flags
\* ------------------------------------------------------------------------

\* parse is at a token that is an option
AtFlag ==
    /\ pc = "parse"
    /\ i < Len(argv)
    /\ StartsWith(argv[i + 1], "-")
    /\ argv[i + 1] \notin {"-", "--"}

\* the one field of the settings each option family names
NamedField(kind) ==
    CASE kind = "quiet" -> "quiet"
      [] kind = "prompt" -> "quiet"
      [] kind = "dry_run" -> "dry_run"
      [] kind = "show_summary" -> "show_summary"
      [] kind = "no_correction" -> "correction_enabled"
      [] kind = "force" -> "force_priority"
      [] kind = "queue" -> "queue"
      [] kind = "cores" -> "cores"
      [] kind = "memory" -> "memory_mb"
      [] kind = "walltime" -> "walltime"
      [] kind = "version" -> "gaussian_version"
      [] kind = "maxdisk" -> "maxdisk_mb"
      [] kind = "preset" -> "preset_loaded"
      [] OTHER -> ""

\* the fields an option family may change besides the one it names
FurtherFields(kind) ==
    CASE kind \in {"prompt", "dry_run"} -> {"show_summary"}
      [] kind = "preset" ->
            {"queue", "cores", "memory_mb", "walltime", "gaussian_version",
             "maxdisk_mb", "whitestripes"}
      [] OTHER -> {}

\* C24 as stated: the step of parse over an option changes no field of the
\* settings but the one the option names
C24_FlagChangesOneField ==
    [][AtFlag =>
          \A f \in DOMAIN settings :
              settings'[f] # settings[f] => f = NamedField(OptionKind(argv[i + 1]))]_vars

\* C24: the step of parse over an option changes no field of the settings
\* but the one the option names and, for the interactive and the dry-run
\* option, show_summary, and for the preset option, the fields of the
\* preset and the text about it
C24_FlagChangesNamedFields ==
    [][AtFlag =>
          \A f \in DOMAIN settings :
              settings'[f] # settings[f] =>
                  \/ f = NamedField(OptionKind(argv[i + 1]))
                  \/ f \in FurtherFields(OptionKind(argv[i + 1]))]_vars

\* after the queue option, the interactive option has changed quiet and
\* show_summary and left the queue
C24_Witness ==
    /\ pc = "parse"
    /\ i = 2
    /\ argv = <<"--queue=pqgen", "--interactive">>
    /\ settings
       = [DefaultSettings EXCEPT !.queue = "pqgen", !.quiet = FALSE,
                                 !.show_summary = TRUE]

\* ------------------------------------------------------------------------
\* Properties of the two logs
\* ------------------------------------------------------------------------

\* the text of a log that received the lines logged by the operations of
\* trace from position k on, each as one newline-terminated entry
RECURSIVE EntriesFrom(_)
EntriesFrom(k) ==
    IF k > Len(trace) THEN ""
    ELSE (IF trace[k].ev = "log" THEN trace[k].arg \o "\n" ELSE "")
         \o EntriesFrom(k + 1)

\* the files whose processing appended an entry
LoggedFiles == {trace[k].file : k \in EventsOf("log")}

FallbackWithinLength(L, d, result) ==
    /\ d[3] <= Len(L)
    /\ MatchesAnyCase(L, d[1]) = {} =>
         /\ Len(result) = Len(L) + 1
         /\ result[d[3] + 1] = d[2]
         /\ SubSeq(result, 1, d[3]) = SubSeq(L, 1, d[3])

\* the directives d applied one after the other to the lines L1 give L2,
\* then L3, then L4: each step keeps its fallback index within the
\* length, and L4 is what correct computes when there is no maxdisk
StepsWithinLength(L1, L2, L3, L4, d, stem, s) ==
    /\ FallbackWithinLength(L1, d[1], L2)
    /\ FallbackWithinLength(L2, d[2], L3)
    /\ FallbackWithinLength(L3, d[3], L4)
    /\ s.maxdisk_mb = None => correct_lines(L1, stem, s) = L4

\* C27: in correct, for every content of the input file, the empty file
\* included, the fallback index of each of the three directives (0 for
\* memory, then 1 for cores, then 2 for the checkpoint) is at most the
\* length of the list it is applied to, so that a line that is inserted is
\* at exactly that index and is never appended before it
C27_FallbackIndexWithinLength ==
    AtCorrect =>
        \E d \in {InputDirectives(PathStem(path), settings)} :
        \E L1 \in {SplitLines(fs[path])} :
        \E L2 \in {update_directive(L1, d[1][1], d[1][2], d[1][3])} :
        \E L3 \in {update_directive(L2, d[2][1], d[2][2], d[2][3])} :
        \E L4 \in {update_directive(L3, d[3][1], d[3][2], d[3][3])} :
            StepsWithinLength(L1, L2, L3, L4, d, PathStem(path), settings)

\* an empty input file was corrected: its three lines are the memory, the
\* cores and the checkpoint, at the indexes 0, 1 and 2
C27_Witness ==
    /\ AfterFirstRun
    /\ settings.maxdisk_mb = None
    /\ FirstRead = ""
    /\ SplitLines(fs[path])
       = <<InputDirectives(PathStem(path), settings)[1][2],
           InputDirectives(PathStem(path), settings)[2][2],
           InputDirectives(PathStem(path), settings)[3][2]>>

====
